---- MODULE Spec2Model ----
(***************************************************************************)
(* Chainpulse ingest pipeline: the per-chain collector (src/collect.rs),   *)
(* the store it shares with the other collectors (src/db.rs) and the       *)
(* subscription loop with its timeout and block-count rotation.            *)
(*                                                                         *)
(* Options (Rust Option<T>, SQL NULL) are sequences of length 0 or 1.      *)
(* Row ids are positions in the table: both tables are AUTOINCREMENT and   *)
(* nothing is ever deleted.                                                *)
(***************************************************************************)
EXTENDS Naturals, Sequences, FiniteSets

VARIABLES
    txs,        \* table txs: sequence of TxRow, id = position
    packets,    \* table packets: sequence of PacketRow, id = position
    schema,     \* whether table packets has the timeout / data_hash columns
    config,     \* collector task -> the chain configuration run() was given
    col,        \* collector task -> state of its current collect() iteration
    metrics,    \* chain id -> counters of the Prometheus registry
    delivered,  \* number of stream items the remote nodes have delivered
    sub,        \* collector task -> its subscription: reader task, channel, stream
    mon,        \* the stuck-packet monitor: wall clock, gauges, sweeps done
    dec,        \* the packet a correlation step decodes and what it binds
    api         \* the last response of the HTTP API

vars == <<txs, packets, schema, config, col, metrics, delivered, sub, mon, dec, api>>

None == <<>>
Some(x) == <<x>>

(***************************************************************************)
(* Bounds of the model.                                                    *)
(***************************************************************************)
MaxItems == 2
MaxSoloItems == 3
MaxLoopItems == 102
MaxRunItems == 101
MaxIterations == 3
MaxFaultItems == 2
MaxSubscriptions == 3
MaxStuckRows == 2
MaxSweeps == 4

(***************************************************************************)
(* Program constants.                                                      *)
(***************************************************************************)
NEWBLOCK_TIMEOUT == 60
DISCONNECT_AFTER_BLOCKS == 100
RECONNECT_DELAY == 5
CHANNEL_CAPACITY == 100
STUCK_THRESHOLD == 900
MONITOR_INTERVAL == 60

Workers == {"w1", "w2"}
Chains == {"a-1", "b-1"}

(***************************************************************************)
(* Messages, packets, events and transactions the remote nodes can send.   *)
(***************************************************************************)
RecvUrl == "/ibc.core.channel.v1.MsgRecvPacket"
AckUrl == "/ibc.core.channel.v1.MsgAcknowledgement"
TransferUrl == "/ibc.applications.transfer.v1.MsgTransfer"
UpdateClientUrl == "/ibc.core.client.v1.MsgUpdateClient"

Packet(seq, sport) ==
    [sequence |-> seq, source_port |-> sport, source_channel |-> "channel-0",
     destination_port |-> "transfer", destination_channel |-> "channel-1"]

P7 == Packet(7, "transfer")

\* A protobuf Any as it sits in a transaction body, with what Msg::decode
\* makes of it: decodes says whether the bytes parse as the type the url names.
AnyMsg(url, decodes, signer, packet) ==
    [type_url |-> url, decodes |-> decodes, signer |-> signer, packet |-> packet]

\* A block-results event with the attributes the handlers read.
Event(type_str, p) ==
    [type_str |-> type_str,
     packet_sequence |-> p.sequence,
     packet_src_port |-> p.source_port,
     packet_src_channel |-> p.source_channel,
     packet_dst_port |-> p.destination_port,
     packet_dst_channel |-> p.destination_channel]

\* Transactions by hash. The hash is the SHA-256 of the transaction bytes, so
\* memo, body and messages are a function of it; events come from the node's
\* block results for the transaction.
TxPool ==
    [h \in {"H1", "H2", "H3", "H4", "H5", "H6", "H7", "H8", "H9"} |->
        CASE h = "H1" ->
               [hash |-> h, decodes |-> TRUE, body |-> TRUE, memo |-> "memo-1",
                messages |-> <<AnyMsg(RecvUrl, TRUE, "relayer-1", Some(P7))>>,
                events |-> <<>>]
          [] h = "H2" ->
               [hash |-> h, decodes |-> TRUE, body |-> TRUE, memo |-> "memo-2",
                messages |-> <<AnyMsg(UpdateClientUrl, TRUE, "relayer-2", None),
                               AnyMsg(RecvUrl, TRUE, "relayer-2", Some(P7))>>,
                events |-> <<>>]
          [] h = "H3" ->
               [hash |-> h, decodes |-> TRUE, body |-> TRUE, memo |-> "",
                messages |-> <<AnyMsg(TransferUrl, TRUE, "user-1", None)>>,
                events |-> <<Event("send_packet", P7)>>]
          [] h = "H4" ->
               [hash |-> h, decodes |-> TRUE, body |-> TRUE, memo |-> "memo-1",
                messages |-> <<AnyMsg(AckUrl, TRUE, "relayer-1", Some(P7))>>,
                events |-> <<Event("acknowledge_packet", P7)>>]
          [] h = "H5" ->
               [hash |-> h, decodes |-> TRUE, body |-> TRUE, memo |-> "memo-2",
                messages |-> <<AnyMsg("/ibc.core.channel.v1.MsgTimeout", TRUE,
                                      "relayer-2", Some(P7))>>,
                events |-> <<Event("timeout_packet", P7)>>]
          [] h = "H6" ->  \* an envelope without a body
               [hash |-> h, decodes |-> TRUE, body |-> FALSE, memo |-> "",
                messages |-> <<>>, events |-> <<>>]
          [] h = "H7" ->  \* bytes that are not a transaction
               [hash |-> h, decodes |-> FALSE, body |-> FALSE, memo |-> "",
                messages |-> <<>>, events |-> <<>>]
          [] h = "H8" ->  \* the second message does not parse as its type
               [hash |-> h, decodes |-> TRUE, body |-> TRUE, memo |-> "memo-8",
                messages |-> <<AnyMsg(RecvUrl, TRUE, "relayer-1", Some(P7)),
                               AnyMsg(AckUrl, FALSE, "relayer-1", Some(P7)),
                               AnyMsg("/ibc.core.channel.v1.MsgTimeout", TRUE,
                                      "relayer-1", Some(P7))>>,
                events |-> <<>>]
          [] OTHER ->     \* relayer-1 submits the packet of H1 once more
               [hash |-> h, decodes |-> TRUE, body |-> TRUE, memo |-> "memo-9",
                messages |-> <<AnyMsg(RecvUrl, TRUE, "relayer-1", Some(P7))>>,
                events |-> <<Event("recv_packet", P7)>>]]

\* Blocks a node can deliver: a height and the hashes of its transactions.
Block(height, data) == [height |-> height, data |-> data]

Blocks ==
    {Block(100, <<"H1">>), Block(101, <<"H2">>), Block(102, <<"H3">>),
     Block(103, <<"H4">>), Block(104, <<"H5">>), Block(105, <<"H1", "H2">>)}

\* Blocks with a transaction or a message the collector cannot read, and a
\* resubmission by the relayer of H1.
FaultBlocks ==
    {Block(100, <<"H1">>), Block(106, <<"H1", "H6", "H2">>), Block(107, <<"H7">>),
     Block(108, <<"H8", "H2">>), Block(109, <<"H9">>)}

(***************************************************************************)
(* The store: schema, unique indexes, and the statements the core runs.    *)
(***************************************************************************)
\* Columns of table packets after create_tables and its migrations.
CreatedColumns ==
    {"id", "tx_id", "sequence", "src_channel", "src_port", "dst_channel",
     "dst_port", "msg_type_url", "signer", "effected", "effected_signer",
     "created_at"}
     \cup {"effected_tx", "sender", "receiver", "denom", "amount", "ibc_version"}

\* Columns the packet inserts name that no statement of db.rs creates.
TimeoutColumns ==
    {"timeout_timestamp", "timeout_height_revision_number",
     "timeout_height_revision_height", "data_hash"}

ProcessMsgColumns ==
    {"tx_id", "sequence", "src_channel", "src_port", "dst_channel", "dst_port",
     "msg_type_url", "signer", "effected", "effected_signer", "effected_tx",
     "sender", "receiver", "denom", "amount", "ibc_version",
     "timeout_timestamp", "timeout_height_revision_number",
     "timeout_height_revision_height", "data_hash", "created_at"}

SendPacketColumns ==
    {"tx_id", "sequence", "src_channel", "src_port", "dst_channel", "dst_port",
     "msg_type_url", "signer", "effected", "sender", "receiver", "denom",
     "amount", "timeout_timestamp", "data_hash", "created_at"}

\* A schema without txs_unique.
NoTxUniqueIndexes == {}

\* The UNIQUE indexes of create_indexes, as column lists per table.
TxUniqueIndexes == {<<"chain", "hash">>}
PacketUniqueIndexes == {}

\* INSERT OR IGNORE: the row is dropped iff it collides with a stored row on
\* every column of some unique index; otherwise it gets the next id.
Conflicts(rows, indexes, row) ==
    \E idx \in indexes : \E i \in 1..Len(rows) :
        \A k \in 1..Len(idx) : rows[i][idx[k]] = row[idx[k]]

InsertOrIgnore(rows, indexes, row) ==
    IF Conflicts(rows, indexes, row)
    THEN rows
    ELSE Append(rows, [row EXCEPT !.id = Len(rows) + 1])

TxRow(chain, height, hash, memo) ==
    [id |-> 0, chain |-> chain, height |-> height, hash |-> hash, memo |-> memo]

\* SELECT * FROM txs WHERE chain = ? AND hash = ? LIMIT 1
SelectTx(chain, hash) ==
    LET hit == {i \in 1..Len(txs) : txs[i].chain = chain /\ txs[i].hash = hash}
    IN  IF hit = {} THEN None
        ELSE Some(txs[CHOOSE i \in hit : \A j \in hit : i <= j])

\* The WHERE clause of the correlation probe.
ProbeMatches(row, packet, type_url) ==
    /\ row.src_channel = packet.source_channel
    /\ row.src_port = packet.source_port
    /\ row.dst_channel = packet.destination_channel
    /\ row.dst_port = packet.destination_port
    /\ row.sequence = packet.sequence
    /\ row.msg_type_url = type_url

\* A probe that returns the newest match instead of the oldest.
ProbeLast(rows, packet, type_url) ==
    LET hit == {i \in 1..Len(rows) : ProbeMatches(rows[i], packet, type_url)}
    IN  IF hit = {} THEN None
        ELSE Some(rows[CHOOSE i \in hit : \A j \in hit : i >= j])

\* SELECT * FROM packets WHERE ... LIMIT 1: SQLite walks the table (or one of
\* its single-column indexes) in rowid order, so the first match is the one
\* with the lowest id.
Probe(rows, packet, type_url) ==
    LET hit == {i \in 1..Len(rows) : ProbeMatches(rows[i], packet, type_url)}
    IN  IF hit = {} THEN None
        ELSE Some(rows[CHOOSE i \in hit : \A j \in hit : i <= j])

(***************************************************************************)
(* Client selection and the state of one collect() iteration.              *)
(***************************************************************************)
\* A factory that dispatches on the version tag before it looks at auth.
create_client_by_version(version, auth) ==
    IF version \in {"0.34", "0.37"} THEN "Classic"
    ELSE IF version = "0.38" THEN "Modern"
    ELSE IF auth THEN "Auth"
    ELSE "Unsupported"

\* match (username, password): Some(AuthConfig) iff both are Some.
auth_config(username, password) == username /\ password

create_client(version, auth) ==
    IF auth THEN "Auth"
    ELSE IF version \in {"0.34", "0.37"} THEN "Classic"
    ELSE IF version = "0.38" THEN "Modern"
    ELSE "Unsupported"

\* A trait in which every client advertises event support.
supports_events_always(client) == client \in {"Classic", "Modern", "Auth"}

supports_events(client) == client \in {"Classic", "Modern"}

\* pc: off | start | wait | insert_tx | select_tx | msg | fetch_tx | insert_packet |
\*     results | event | returned | sleep.   phase: msgs (the loop over block.data) or
\* events (the loop over txs_results).   blocks and since are measurements:
\* blocks processed in this iteration, seconds since the last block arrived,
\* and prev, the block whose processing the iteration completed last; slept is
\* the time run() slept before it called this iteration; item is the kind of
\* the stream item the loop took last; results is what became of the
\* block-results request for the current block: none (not made) | ok | failed.
Fresh ==
    [pc |-> "start", outcome |-> "", client |-> "", closed |-> FALSE, item |-> "",
     count |-> 0, blocks |-> 0, since |-> 0, slept |-> 0,
     block |-> None, phase |-> "", ti |-> 0, mi |-> 0, ei |-> 0,
     tx_row |-> None, existing |-> None, prev |-> None, results |-> ""]

\* frontrun_labels: the (signer, frontrunned_by) label pairs of the series
\* of ibc_frontrun_counter that were incremented.
Counters ==
    [chainpulse_txs |-> 0, chainpulse_packets |-> 0, chainpulse_timeouts |-> 0,
     chainpulse_errors |-> 0, chainpulse_reconnects |-> 0,
     ibc_effected_packets |-> 0, ibc_uneffected_packets |-> 0,
     ibc_frontrun_counter |-> 0, frontrun_labels |-> {}]

Inc(m, chain, counter, n) == [m EXCEPT ![chain][counter] = @ + n]

Chain(w) == config[w].chain
CurTx(c) == TxPool[c.block[1].data[c.ti]]

Return(c, outcome) == [c EXCEPT !.pc = "returned", !.outcome = outcome]

\* The bottom of the loop body: rotate the subscription or wait again.
AfterBlock(c) ==
    IF c.count >= DISCONNECT_AFTER_BLOCKS
    THEN Return([c EXCEPT !.prev = c.block], "BlockElapsed")
    ELSE [c EXCEPT !.pc = "wait", !.prev = c.block]

\* The next transaction of the loop the collector is in, or what follows it.
\* tx_row and existing are locals of the loop body and of process_msg.
AfterTx(c) ==
    LET d == [c EXCEPT !.tx_row = None, !.existing = None, !.mi = 0, !.ei = 0]
    IN  IF c.ti < Len(c.block[1].data)
        THEN [d EXCEPT !.ti = c.ti + 1, !.pc = "insert_tx"]
        ELSE IF c.phase = "msgs" THEN [d EXCEPT !.pc = "results"]
        ELSE AfterBlock(d)

AfterMsg(c) ==
    IF c.mi < Len(CurTx(c).messages)
    THEN [c EXCEPT !.mi = c.mi + 1, !.pc = "msg", !.existing = None]
    ELSE AfterTx(c)

AfterEvent(c) ==
    IF c.ei < Len(CurTx(c).events)
    THEN [c EXCEPT !.ei = c.ei + 1, !.pc = "event"]
    ELSE AfterTx(c)

Min(a, b) == IF a <= b THEN a ELSE b

(***************************************************************************)
(* collect(): client, subscription, and the wait for the next stream item. *)
(***************************************************************************)
\* Build the client and subscribe. Only the Modern client cannot fail here:
\* it connects in the task it spawns.
Subscribe(w) ==
    /\ col[w].pc = "start"
    /\ metrics[Chain(w)].chainpulse_reconnects < MaxIterations
    /\ LET auth == auth_config(config[w].username, config[w].password)
           client == create_client(config[w].version, auth)
       IN  \E ok \in BOOLEAN :
             /\ (client = "Modern") => ok
             /\ (client = "Unsupported") => ~ok
             /\ col' = [col EXCEPT ![w] =
                          IF ok THEN [@ EXCEPT !.pc = "wait", !.client = client]
                          ELSE Return(@, "Err")]
    /\ UNCHANGED <<txs, packets, schema, config, metrics, delivered, sub, mon, dec, api>>

\* A stream item: a new block, an error, an event that carries no block, or
\* the end of the stream.
BlockItem(b) == [kind |-> "block", block |-> Some(b)]
OtherItem(k) == [kind |-> k, block |-> None]

\* time::timeout(NEWBLOCK_TIMEOUT, subscription.next()) and what the loop does
\* with its result up to the first transaction. d is the time the stream takes
\* to yield; a closed stream yields None at once, every time.
NextItem(w, items, delays, max) ==
    /\ col[w].pc = "wait"
    /\ delivered < max
    /\ \E d \in delays :
         IF d >= NEWBLOCK_TIMEOUT /\ ~col[w].closed
         THEN /\ metrics' = Inc(metrics, Chain(w), "chainpulse_timeouts", 1)
              /\ col' = [col EXCEPT ![w] =
                           Return([@ EXCEPT !.since = Min(@ + d, NEWBLOCK_TIMEOUT)],
                                  "Timeout")]
              /\ UNCHANGED delivered
         ELSE \E it \in items :
              /\ col[w].closed => it.kind = "closed"
              /\ (it.kind = "closed" \/ col[w].closed) => d = 0
              /\ d < NEWBLOCK_TIMEOUT
              /\ delivered' = delivered + 1
              /\ UNCHANGED metrics
              /\ col' = [col EXCEPT ![w] =
                    IF it.kind # "block"
                    THEN [@ EXCEPT !.count = @ + 1, !.item = it.kind,
                                   !.results = "",
                                   !.since = Min(@ + d, NEWBLOCK_TIMEOUT),
                                   !.closed = (it.kind = "closed")]
                    ELSE LET c == [@ EXCEPT !.count = @ + 1, !.since = 0,
                                            !.item = it.kind, !.results = "",
                                            !.blocks = @ + 1, !.block = it.block,
                                            !.phase = "msgs", !.ti = 1, !.mi = 0,
                                            !.ei = 0, !.tx_row = None,
                                            !.existing = None]
                         IN  IF it.block[1].data = <<>>
                             THEN [c EXCEPT !.pc = "results"]
                             ELSE [c EXCEPT !.pc = "insert_tx"]]
    /\ UNCHANGED <<txs, packets, schema, config, sub, mon, dec, api>>

(***************************************************************************)
(* insert_tx, in its two statements.                                       *)
(***************************************************************************)
\* Count and decode the transaction, then INSERT OR IGNORE INTO txs.
InsertTx(w) ==
    /\ col[w].pc = "insert_tx"
    /\ LET c == col[w]
           tx == CurTx(c)
           m == IF c.phase = "msgs"
                THEN Inc(metrics, Chain(w), "chainpulse_txs", 1)
                ELSE metrics
       IN  /\ metrics' = m
           /\ IF ~tx.decodes
              THEN /\ col' = [col EXCEPT ![w] = Return(@, "Err")]
                   /\ UNCHANGED txs
              ELSE /\ txs' = InsertOrIgnore(txs, TxUniqueIndexes,
                                TxRow(Chain(w), c.block[1].height, tx.hash,
                                      IF tx.body THEN tx.memo ELSE ""))
                   /\ col' = [col EXCEPT ![w].pc = "select_tx"]
    /\ UNCHANGED <<packets, schema, config, delivered, sub, mon, dec, api>>

\* A transaction whose missing body counts as an empty list of messages.
TxBodyOrEmpty(tx) == Some(tx.messages)

\* tx.body.ok_or("missing tx body")?.messages
TxBody(tx) == IF tx.body THEN Some(tx.messages) ELSE None

\* SELECT the row back; then the body check of the message loop, or the first
\* event of the transaction's result.
SelectTxRow(w) ==
    /\ col[w].pc = "select_tx"
    /\ LET c == col[w]
           tx == CurTx(c)
           row == SelectTx(Chain(w), tx.hash)
           c1 == [c EXCEPT !.tx_row = row]
       IN  col' = [col EXCEPT ![w] =
                IF row = None THEN Return(c, "Err")
                ELSE IF c.phase = "msgs"
                THEN IF TxBody(tx) = None THEN Return(c1, "Err")
                     ELSE IF TxBody(tx)[1] = <<>> THEN AfterTx(c1)
                     ELSE [c1 EXCEPT !.mi = 1, !.pc = "msg"]
                ELSE IF tx.events = <<>> THEN AfterTx(c1)
                     ELSE [c1 EXCEPT !.ei = 1, !.pc = "event"]]
    /\ UNCHANGED <<txs, packets, schema, config, metrics, delivered, sub, mon, dec, api>>

(***************************************************************************)
(* Msg::decode and the classification helpers.                             *)
(***************************************************************************)
TimeoutUrl == "/ibc.core.channel.v1.MsgTimeout"

MsgVariant(type_url) ==
    CASE type_url = "/ibc.core.client.v1.MsgCreateClient" -> "CreateClient"
      [] type_url = UpdateClientUrl -> "UpdateClient"
      [] type_url = TimeoutUrl -> "Timeout"
      [] type_url = RecvUrl -> "RecvPacket"
      [] type_url = AckUrl -> "Acknowledgement"
      [] type_url = "/ibc.core.channel.v1.MsgChannelOpenInit" -> "ChanOpenInit"
      [] type_url = "/ibc.core.channel.v1.MsgChannelOpenTry" -> "ChanOpenTry"
      [] type_url = "/ibc.core.channel.v1.MsgChannelOpenAck" -> "ChanOpenAck"
      [] type_url = "/ibc.core.channel.v1.MsgChannelOpenConfirm" -> "ChanOpenConfirm"
      [] type_url = TransferUrl -> "Transfer"
      [] OTHER -> "Other"

\* Type urls of the model that start with "/ibc" without being recognized.
OtherIbcUrls == {"/ibc.core.connection.v1.MsgConnectionOpenInit"}

is_ibc(any) ==
    IF MsgVariant(any.type_url) = "Other"
    THEN any.type_url \in OtherIbcUrls
    ELSE TRUE

is_relevant(any) ==
    MsgVariant(any.type_url) \in {"RecvPacket", "Acknowledgement", "Timeout", "Transfer"}

packet(any) ==
    IF MsgVariant(any.type_url) \in {"RecvPacket", "Acknowledgement", "Timeout"}
    THEN any.packet
    ELSE None

\* A decoder that accepts every message.
DecodeAlwaysOk(any) == TRUE

\* Ok for an unrecognized url whatever its bytes; otherwise prost's verdict.
DecodeOk(any) == MsgVariant(any.type_url) = "Other" \/ any.decodes

(***************************************************************************)
(* process_msg: the correlation step, one action per store statement.      *)
(***************************************************************************)
PacketRow(tx_id, p, type_url, signer, effected, effected_signer, effected_tx) ==
    [id |-> 0, tx_id |-> tx_id, sequence |-> p.sequence,
     src_channel |-> p.source_channel, src_port |-> p.source_port,
     dst_channel |-> p.destination_channel, dst_port |-> p.destination_port,
     msg_type_url |-> type_url, signer |-> signer, effected |-> effected,
     effected_signer |-> effected_signer, effected_tx |-> effected_tx]

\* The row process_msg binds: effected iff the probe found nothing, else the
\* probe's row names the winner.
CorrelatedRow(tx_row, any, existing) ==
    PacketRow(tx_row.id, any.packet[1], any.type_url, any.signer,
              existing = None,
              IF existing = None THEN None ELSE Some(existing[1].signer),
              IF existing = None THEN None ELSE Some(existing[1].tx_id))

\* Decode message mi and, for a packet message, run the probe.
ProcessMsg(w) ==
    /\ col[w].pc = "msg"
    /\ LET c == col[w]
           any == CurTx(c).messages[c.mi]
       IN  IF ~DecodeOk(any) \/ ~is_ibc(any) \/ ~is_relevant(any)
           THEN /\ col' = [col EXCEPT ![w] = AfterMsg(c)]
                /\ UNCHANGED metrics
           ELSE IF MsgVariant(any.type_url) = "Transfer"
           THEN \* counted in process_msg and again in process_transfer
                /\ metrics' = Inc(metrics, Chain(w), "chainpulse_packets", 2)
                /\ col' = [col EXCEPT ![w] = AfterMsg(c)]
           ELSE IF packet(any) = None
           THEN /\ col' = [col EXCEPT ![w] = AfterMsg(c)]
                /\ UNCHANGED metrics
           ELSE LET existing == Probe(packets, any.packet[1], any.type_url)
                    m == Inc(metrics, Chain(w), "chainpulse_packets", 1)
                IN  IF existing = None
                    THEN /\ metrics' = Inc(m, Chain(w), "ibc_effected_packets", 1)
                         /\ col' = [col EXCEPT ![w].existing = existing,
                                               ![w].pc = "insert_packet"]
                    ELSE /\ metrics' = m
                         /\ col' = [col EXCEPT ![w].existing = existing,
                                               ![w].pc = "fetch_tx"]
    /\ UNCHANGED <<txs, packets, schema, config, delivered, sub, mon, dec, api>>

\* SELECT * FROM txs WHERE id = existing.tx_id, then the two metrics of an
\* uneffected observation.
FetchEffectedTx(w) ==
    /\ col[w].pc = "fetch_tx"
    /\ LET c == col[w]
       IN  IF c.existing[1].tx_id \in 1..Len(txs)
           THEN /\ metrics' =
                     [Inc(Inc(metrics, Chain(w), "ibc_uneffected_packets", 1),
                          Chain(w), "ibc_frontrun_counter", 1)
                        EXCEPT ![Chain(w)].frontrun_labels = @ \cup
                          {<<CurTx(c).messages[c.mi].signer, c.existing[1].signer>>}]
                /\ col' = [col EXCEPT ![w].pc = "insert_packet"]
           ELSE /\ col' = [col EXCEPT ![w] = Return(c, "Err")]
                /\ UNCHANGED metrics
    /\ UNCHANGED <<txs, packets, schema, config, delivered, sub, mon, dec, api>>

\* INSERT OR IGNORE INTO packets; the statement fails when it names a column
\* the table does not have.
InsertPacket(w) ==
    /\ col[w].pc = "insert_packet"
    /\ LET c == col[w]
           any == CurTx(c).messages[c.mi]
       IN  IF ProcessMsgColumns \subseteq schema
           THEN /\ packets' = InsertOrIgnore(packets, PacketUniqueIndexes,
                                  CorrelatedRow(c.tx_row[1], any, c.existing))
                /\ col' = [col EXCEPT ![w] = AfterMsg(c)]
           ELSE /\ col' = [col EXCEPT ![w] = Return(c, "Err")]
                /\ UNCHANGED packets
    /\ UNCHANGED <<txs, schema, config, metrics, delivered, sub, mon, dec, api>>

(***************************************************************************)
(* Block results and the event handlers.                                   *)
(***************************************************************************)
\* get_block_results, when the client supports events. A failed request is
\* logged and ignored; a result lists the events of each transaction.
BlockResults(w) ==
    /\ col[w].pc = "results"
    /\ \E ok \in BOOLEAN :
         LET c == [col[w] EXCEPT !.results =
                      IF ~supports_events(col[w].client) THEN "none"
                      ELSE IF ok THEN "ok" ELSE "failed"]
         IN  /\ ~supports_events(c.client) => ~ok
             /\ col' = [col EXCEPT ![w] =
                   IF ok /\ c.block[1].data # <<>>
                   THEN [c EXCEPT !.phase = "events", !.ti = 1, !.pc = "insert_tx"]
                   ELSE AfterBlock(c)]
    /\ UNCHANGED <<txs, packets, schema, config, metrics, delivered, sub, mon, dec, api>>

\* WHERE clause of the two UPDATEs of event-derived rows.
\* A WHERE clause without the msg_type_url condition.
UpdateMatchesAnyType(row, ev) ==
    /\ row.sequence = ev.packet_sequence
    /\ row.src_channel = ev.packet_src_channel
    /\ row.dst_channel = ev.packet_dst_channel

UpdateMatches(row, ev) ==
    /\ row.sequence = ev.packet_sequence
    /\ row.src_channel = ev.packet_src_channel
    /\ row.dst_channel = ev.packet_dst_channel
    /\ row.msg_type_url = "send_packet"

\* UPDATE packets SET effected = 1, effected_tx = ? WHERE ...
AcknowledgeUpdate(rows, ev, tx_id) ==
    [i \in 1..Len(rows) |->
        IF UpdateMatches(rows[i], ev)
        THEN [rows[i] EXCEPT !.effected = TRUE, !.effected_tx = Some(tx_id)]
        ELSE rows[i]]

\* UPDATE packets SET effected = 1, effected_tx = ?, msg_type_url = 'timeout_packet' WHERE ...
TimeoutUpdate(rows, ev, tx_id) ==
    [i \in 1..Len(rows) |->
        IF UpdateMatches(rows[i], ev)
        THEN [rows[i] EXCEPT !.effected = TRUE, !.effected_tx = Some(tx_id),
                             !.msg_type_url = "timeout_packet"]
        ELSE rows[i]]

SendPacketRow(tx_id, ev) ==
    [id |-> 0, tx_id |-> tx_id, sequence |-> ev.packet_sequence,
     src_channel |-> ev.packet_src_channel, src_port |-> ev.packet_src_port,
     dst_channel |-> ev.packet_dst_channel, dst_port |-> ev.packet_dst_port,
     msg_type_url |-> "send_packet", signer |-> "", effected |-> FALSE,
     effected_signer |-> None, effected_tx |-> None]

\* process_tx_events, one event (one store statement at most) per step.
ProcessEvent(w) ==
    /\ col[w].pc = "event"
    /\ LET c == col[w]
           ev == CurTx(c).events[c.ei]
           tx_id == c.tx_row[1].id
       IN  CASE ev.type_str = "send_packet" ->
                  /\ metrics' = Inc(metrics, Chain(w), "chainpulse_packets", 1)
                  /\ IF SendPacketColumns \subseteq schema
                     THEN /\ packets' = InsertOrIgnore(packets, PacketUniqueIndexes,
                                            SendPacketRow(tx_id, ev))
                          /\ col' = [col EXCEPT ![w] = AfterEvent(c)]
                     ELSE /\ col' = [col EXCEPT ![w] = Return(c, "Err")]
                          /\ UNCHANGED packets
             [] ev.type_str = "acknowledge_packet" ->
                  /\ packets' = AcknowledgeUpdate(packets, ev, tx_id)
                  /\ col' = [col EXCEPT ![w] = AfterEvent(c)]
                  /\ UNCHANGED metrics
             [] ev.type_str = "timeout_packet" ->
                  /\ packets' = TimeoutUpdate(packets, ev, tx_id)
                  /\ col' = [col EXCEPT ![w] = AfterEvent(c)]
                  /\ UNCHANGED metrics
             [] OTHER ->
                  /\ col' = [col EXCEPT ![w] = AfterEvent(c)]
                  /\ UNCHANGED <<packets, metrics>>
    /\ UNCHANGED <<txs, schema, config, delivered, sub, mon, dec, api>>

(***************************************************************************)
(* run(): the supervisor loop around collect().                            *)
(***************************************************************************)
\* A supervisor that counts an error for every outcome.
ReconnectCountingAll(w) ==
    /\ col[w].pc = "returned"
    /\ metrics' = Inc(Inc(metrics, Chain(w), "chainpulse_errors", 1),
                      Chain(w), "chainpulse_reconnects", 1)
    /\ col' = [col EXCEPT ![w].pc = "sleep"]
    /\ UNCHANGED <<txs, packets, schema, config, delivered, sub, mon, dec, api>>

\* A supervisor that counts the reconnect twice.
ReconnectTwice(w) ==
    /\ col[w].pc = "returned"
    /\ metrics' = Inc(IF col[w].outcome = "Err"
                      THEN Inc(metrics, Chain(w), "chainpulse_errors", 1)
                      ELSE metrics,
                      Chain(w), "chainpulse_reconnects", 2)
    /\ col' = [col EXCEPT ![w].pc = "sleep"]
    /\ UNCHANGED <<txs, packets, schema, config, delivered, sub, mon, dec, api>>

\* match task.await: an Err counts an error; every result counts a reconnect.
Reconnect(w) ==
    /\ col[w].pc = "returned"
    /\ metrics' = Inc(IF col[w].outcome = "Err"
                      THEN Inc(metrics, Chain(w), "chainpulse_errors", 1)
                      ELSE metrics,
                      Chain(w), "chainpulse_reconnects", 1)
    /\ col' = [col EXCEPT ![w].pc = "sleep"]
    /\ UNCHANGED <<txs, packets, schema, config, delivered, sub, mon, dec, api>>

\* time::sleep(5 s), then the next turn of the loop calls collect() again:
\* all of the iteration's locals, client and subscription included, are new,
\* and so is the stream the node serves.
Sleep(w) ==
    /\ col[w].pc = "sleep"
    /\ col' = [col EXCEPT ![w] = [Fresh EXCEPT !.slept = RECONNECT_DELAY]]
    /\ delivered' = 0
    /\ UNCHANGED <<txs, packets, schema, config, metrics, sub, mon, dec, api>>

(***************************************************************************)
(* Block subscriptions of the Modern and Auth clients: a spawned task      *)
(* reads the WebSocket and sends events into a bounded channel whose       *)
(* receiver is the stream collect() polls.                                 *)
(*   sub[w].reader: none | running | blocked (awaiting tx.send) | done     *)
(*   sub[w].rx:     live | dropped (the iteration that held it returned)   *)
(*   sub[w].chan:   the events buffered in the channel                     *)
(*   sub[w].last, sub[w].send: the frame the task read last and what its   *)
(*                  send did; sub[w].orphans: tasks of earlier iterations  *)
(*                  that still run; sub[w].spawned: subscribe_blocks calls *)
(***************************************************************************)
Frames == {"block", "malformed", "rpc_error", "ping", "close", "transport_error"}

\* Ok(Event { data: NewBlock { block: Some(block), .. }, .. })
OkEvent == [ok |-> TRUE, data |-> "NewBlock"]

Running(s) == s.reader \in {"running", "blocked"}

\* The tasks of earlier subscriptions: tokio::spawn's handle is dropped, so
\* a task runs on until its own loop ends.
Orphans(s) == s.orphans + (IF Running(s) THEN 1 ELSE 0)

\* client.subscribe_blocks() at the start of an iteration. The Modern client
\* connects inside the task and returns Ok before that; the Auth client
\* connects first and returns Err (which ends the iteration) when it fails.
SubscribeBlocks(w, connected) ==
    LET s == sub[w]
        kind == create_client(config[w].version,
                              auth_config(config[w].username, config[w].password))
    IN  /\ kind \in {"Modern", "Auth"}
        /\ s.rx = "dropped"
        /\ s.spawned < MaxSubscriptions
        /\ sub' = [sub EXCEPT ![w] =
                     [kind |-> kind,
                      reader |-> IF connected THEN "running" ELSE "done",
                      rx |-> IF kind = "Auth" /\ ~connected THEN "dropped" ELSE "live",
                      chan |-> <<>>, last |-> "", send |-> "",
                      orphans |-> Orphans(s), spawned |-> s.spawned + 1]]
        /\ UNCHANGED <<txs, packets, schema, config, col, metrics, delivered, mon, dec, api>>

\* tx.send(Ok(event)).await of a task in state s: an error when the receiver
\* is gone, which the Modern reader ignores (let _ =) and the Auth bridge
\* takes as its end; otherwise the event is buffered when there is room, and
\* the task waits for room when there is none.
Send(s) ==
    IF s.rx = "dropped"
    THEN [s EXCEPT !.send = "failed",
                   !.reader = IF s.kind = "Auth" THEN "done" ELSE "running"]
    ELSE IF Len(s.chan) < CHANNEL_CAPACITY
    THEN [s EXCEPT !.send = "ok", !.reader = "running",
                   !.chan = Append(@, OkEvent)]
    ELSE [s EXCEPT !.send = "pending", !.reader = "blocked"]

\* One turn of the task's loop over the socket: ws.next() in
\* handle_subscription, BlockStream::next in the Auth bridge.
ReadFrame(w, f) ==
    LET s == [sub[w] EXCEPT !.last = f, !.send = ""]
    IN  /\ sub[w].reader = "running"
        /\ sub' = [sub EXCEPT ![w] =
                     CASE f = "block" -> Send(s)
                       [] f \in {"close", "transport_error"} ->
                            [s EXCEPT !.reader = "done"]
                       [] OTHER -> s]
        /\ UNCHANGED <<txs, packets, schema, config, col, metrics, delivered, mon, dec, api>>

\* The pending send of a waiting task completes: with an error once the
\* receiver is dropped, with the event buffered once there is room.
SendCompletes(w) ==
    /\ sub[w].reader = "blocked"
    /\ sub[w].rx = "dropped" \/ Len(sub[w].chan) < CHANNEL_CAPACITY
    /\ sub' = [sub EXCEPT ![w] = Send(@)]
    /\ UNCHANGED <<txs, packets, schema, config, col, metrics, delivered, mon, dec, api>>

\* subscription.next() takes the oldest buffered event.
StreamNext(w) ==
    /\ sub[w].rx = "live"
    /\ sub[w].chan # <<>>
    /\ sub' = [sub EXCEPT ![w].chan = Tail(@)]
    /\ UNCHANGED <<txs, packets, schema, config, col, metrics, delivered, mon, dec, api>>

\* collect() returns: its subscription, the receiving end of the channel, is
\* dropped together with the events still buffered.
IterationReturns(w) ==
    /\ sub[w].rx = "live"
    /\ sub' = [sub EXCEPT ![w].rx = "dropped", ![w].chan = <<>>]
    /\ UNCHANGED <<txs, packets, schema, config, col, metrics, delivered, mon, dec, api>>

\* The node closes the socket of a task left over from an earlier iteration.
OrphanEnds(w) ==
    /\ sub[w].orphans > 0
    /\ sub' = [sub EXCEPT ![w].orphans = @ - 1]
    /\ UNCHANGED <<txs, packets, schema, config, col, metrics, delivered, mon, dec, api>>

(***************************************************************************)
(* The stuck packet monitor. A gauge family is a set of <<labels, value>>  *)
(* pairs, one per label combination that was ever set.                     *)
(*   mon.now: the clock, in seconds; mon.sweeps: ticks so far; mon.ok:     *)
(*   whether the last sweep's query succeeded; mon.failed: whether the     *)
(*   query of any sweep failed; mon.detailed, mon.age,                     *)
(*   mon.stuck: ibc_stuck_packets_detailed, ibc_packet_age_seconds and     *)
(*   ibc_stuck_packets.                                                    *)
(***************************************************************************)
\* with_label_values(labels).set(value)
SetGauge(g, labels, value) ==
    {e \in g : e[1] # labels} \cup {<<labels, value>>}

\* CAST((strftime('%s', 'now') - strftime('%s', p.created_at)) AS INTEGER)
Age(row, now) == now - row.created_at

\* FROM packets p JOIN txs t ON p.tx_id = t.id
\* WHERE p.effected = 0 AND age > stuck_threshold_secs
StuckRows(now) ==
    {i \in 1..Len(packets) :
        /\ packets[i].tx_id \in 1..Len(txs)
        /\ ~packets[i].effected
        /\ Age(packets[i], now) > STUCK_THRESHOLD}

\* GROUP BY t.chain, p.dst_channel, p.src_channel
GroupOf(i) ==
    <<txs[packets[i].tx_id].chain, packets[i].dst_channel, packets[i].src_channel>>

Members(g, now) == {i \in StuckRows(now) : GroupOf(i) = g}

MinAge(rows, now) ==
    CHOOSE a \in {Age(packets[i], now) : i \in rows} :
        \A i \in rows : a <= Age(packets[i], now)

\* One row of the query's result: (src_chain, dst_channel, src_channel,
\* stuck_count, with_user_data, max_age).
StuckGroup(g, now) ==
    LET rows == Members(g, now)
    IN  [src_chain |-> g[1], dst_channel |-> g[2], src_channel |-> g[3],
         stuck_count |-> Cardinality(rows),
         with_user_data |-> Cardinality({i \in rows : packets[i].sender # None}),
         max_age |-> MinAge(rows, now)]

StuckGroups(now) == {StuckGroup(GroupOf(i), now) : i \in StuckRows(now)}

\* The three setters called for one row of the result.
DetailedLabels(r) ==
    <<r.src_chain, r.dst_channel, r.src_channel, r.dst_channel,
      IF r.with_user_data > 0 THEN "true" ELSE "false">>
ChannelLabels(r) == <<r.src_chain, r.dst_channel, r.src_channel>>

\* for ... in rows: the setter called once per row, with the row's labels.
RECURSIVE SetAll(_, _)
SetAll(g, calls) ==
    IF calls = {} THEN g
    ELSE LET c == CHOOSE x \in calls : TRUE
         IN  SetAll(SetGauge(g, c[1], c[2]), calls \ {c})

\* A sweep whose failed query resets the gauges.
check_stuck_packets_resetting(m, now, query_ok) ==
    LET rows == StuckGroups(now)
    IN  [now |-> now, sweeps |-> m.sweeps + 1, ok |-> query_ok,
         failed |-> m.failed \/ ~query_ok,
         detailed |-> IF ~query_ok THEN {}
                      ELSE SetAll(m.detailed,
                          {<<DetailedLabels(r), r.stuck_count>> : r \in rows}),
         age |-> IF ~query_ok THEN {}
                 ELSE SetAll(m.age,
                     {<<ChannelLabels(r), r.max_age>> :
                         r \in {x \in rows : x.max_age > 0}}),
         stuck |-> IF ~query_ok THEN {}
                   ELSE SetAll(m.stuck,
                       {<<ChannelLabels(r), r.stuck_count>> : r \in rows})]

\* check_stuck_packets at time now, as the m.sweeps + 1st sweep: a failed
\* query is logged and leaves the gauges as they are.
check_stuck_packets(m, now, query_ok) ==
    LET rows == StuckGroups(now)
    IN  IF ~query_ok
        THEN [m EXCEPT !.now = now, !.sweeps = @ + 1, !.ok = FALSE,
                       !.failed = TRUE]
        ELSE [now |-> now, sweeps |-> m.sweeps + 1, ok |-> TRUE,
              failed |-> m.failed,
              detailed |-> SetAll(m.detailed,
                  {<<DetailedLabels(r), r.stuck_count>> : r \in rows}),
              age |-> SetAll(m.age,
                  {<<ChannelLabels(r), r.max_age>> :
                      r \in {x \in rows : x.max_age > 0}}),
              stuck |-> SetAll(m.stuck,
                  {<<ChannelLabels(r), r.stuck_count>> : r \in rows})]

\* check_interval.tick() and the sweep: the first tick completes at once,
\* every later one MONITOR_INTERVAL after the one before.
MonitorTick(query_ok) ==
    LET now == IF mon.sweeps = 0 THEN mon.now ELSE mon.now + MONITOR_INTERVAL
    IN  /\ mon.sweeps < MaxSweeps
        /\ mon' = check_stuck_packets(mon, now, query_ok)
        /\ UNCHANGED <<txs, packets, schema, config, col, metrics, delivered, sub, dec, api>>

\* A collector handles the acknowledge_packet event of packet p while the
\* monitor waits for its next tick.
AcknowledgeBetweenSweeps(p) ==
    /\ packets' = AcknowledgeUpdate(packets, Event("acknowledge_packet", p), 1)
    /\ packets' # packets
    /\ UNCHANGED <<txs, schema, config, col, metrics, delivered, sub, mon, dec, api>>

(***************************************************************************)
(* Packet decoding: UniversalPacketInfo::from_packet and the values        *)
(* process_msg binds to the INSERT. A u64 is four 16-bit limbs, most       *)
(* significant first; an i64 is a sign and the limbs of its magnitude.     *)
(*   dec.pc: none | packet | info | row; dec.packet: the decoded packet;   *)
(*   dec.info: what from_packet returned; dec.row: the bound values        *)
(***************************************************************************)
LimbBase == 2^16

Inv(u) == [i \in 1..4 |-> LimbBase - 1 - u[i]]

\* u + 1 modulo 2^64
PlusOne(u) ==
    IF \A i \in 1..4 : u[i] = LimbBase - 1 THEN <<0, 0, 0, 0>>
    ELSE LET i == CHOOSE k \in 1..4 :
                      /\ u[k] < LimbBase - 1
                      /\ \A j \in (k + 1)..4 : u[j] = LimbBase - 1
         IN  [k \in 1..4 |-> IF k < i THEN u[k]
                             ELSE IF k = i THEN u[k] + 1
                             ELSE 0]

\* The integer a u64 stands for.
Int(u) == [neg |-> FALSE, mag |-> u]

\* u as i64: the same 64 bits read as two's complement.
AsI64(u) ==
    IF u[1] < LimbBase \div 2 THEN Int(u)
    ELSE [neg |-> TRUE, mag |-> PlusOne(Inv(u))]

\* Packet data: bytes that are not JSON, or a JSON object whose members are
\* strings or numbers, each held as its text.
NotJson == [json |-> FALSE]
Json(object) == [json |-> TRUE, object |-> object]
Str(v) == [t |-> "string", v |-> v]
Num(v) == [t |-> "number", v |-> v]

Ok(v) == [ok |-> TRUE, v |-> v]
Err == [ok |-> FALSE]

\* A deserializer for which memo is a required member.
from_slice_strict(data) ==
    IF ~data.json THEN Err
    ELSE LET o == data.object
         IN  IF /\ {"denom", "amount", "sender", "receiver", "memo"} \subseteq DOMAIN o
                /\ \A f \in {"denom", "amount", "sender", "receiver", "memo"} :
                       o[f].t = "string"
             THEN Ok([denom |-> o.denom.v, amount |-> o.amount.v,
                      sender |-> o.sender.v, receiver |-> o.receiver.v,
                      memo |-> o.memo.v])
             ELSE Err

\* serde_json::from_slice::<FungibleTokenPacketData>: four required string
\* members, memo defaulting to "" when absent, unknown members ignored.
from_slice(data) ==
    IF ~data.json THEN Err
    ELSE LET o == data.object
             required == {"denom", "amount", "sender", "receiver"}
         IN  IF /\ required \subseteq DOMAIN o
                /\ \A f \in (required \cup {"memo"}) \cap DOMAIN o : o[f].t = "string"
             THEN Ok([denom |-> o.denom.v, amount |-> o.amount.v,
                      sender |-> o.sender.v, receiver |-> o.receiver.v,
                      memo |-> IF "memo" \in DOMAIN o THEN o.memo.v ELSE ""])
             ELSE Err

\* format!("{:x}", Sha256(bytes)) and hex::encode(bytes): two injective
\* encodings of the bytes with disjoint images.
Sha256Hex(bytes) == <<"sha256", bytes>>
HexEncode(bytes) == <<"hex", bytes>>

\* No bytes at all; "" is their hex.
EmptyBytes == [json |-> FALSE, empty |-> TRUE]

from_packet(p) ==
    LET parsed == IF p.source_port = "transfer" THEN from_slice(p.data) ELSE Err
        user(f) == IF parsed.ok THEN Some(parsed.v[f]) ELSE None
    IN  [sequence |-> p.sequence,
         source_channel |-> p.source_channel,
         destination_channel |-> p.destination_channel,
         source_port |-> p.source_port,
         destination_port |-> p.destination_port,
         timeout_timestamp |-> IF p.timeout_timestamp = <<0, 0, 0, 0>> THEN None
                               ELSE Some(p.timeout_timestamp),
         timeout_height |-> p.timeout_height,
         sender |-> user("sender"), receiver |-> user("receiver"),
         amount |-> user("amount"), denom |-> user("denom"),
         transfer_memo |-> user("memo"),
         ibc_version |-> "v1",
         data_hash |-> Sha256Hex(p.data)]

\* .map(|ts| ts as i64) and .as_ref().map(|h| h.<field> as i64)
MapAsI64(opt) == IF opt = None THEN None ELSE Some(AsI64(opt[1]))
MapFieldAsI64(opt, field) == IF opt = None THEN None ELSE Some(AsI64(opt[1][field]))

\* The values bound for the packet's own columns.
BoundRow(p, info) ==
    [sequence |-> AsI64(p.sequence),
     src_channel |-> p.source_channel, src_port |-> p.source_port,
     dst_channel |-> p.destination_channel, dst_port |-> p.destination_port,
     sender |-> info.sender, receiver |-> info.receiver,
     denom |-> info.denom, amount |-> info.amount,
     ibc_version |-> info.ibc_version,
     timeout_timestamp |-> MapAsI64(info.timeout_timestamp),
     timeout_height_revision_number |->
         MapFieldAsI64(info.timeout_height, "revision_number"),
     timeout_height_revision_height |->
         MapFieldAsI64(info.timeout_height, "revision_height"),
     data_hash |-> info.data_hash]

\* The attributes of the send_packet event the chain emits for packet p;
\* packet_data, when the event has it, is the payload in hex.
SendPacketAttributes(p, with_data) ==
    [packet_sequence |-> p.sequence,
     packet_src_channel |-> p.source_channel, packet_src_port |-> p.source_port,
     packet_dst_channel |-> p.destination_channel,
     packet_dst_port |-> p.destination_port,
     packet_timeout_timestamp |-> p.timeout_timestamp,
     packet_data |-> IF with_data THEN Some(HexEncode(p.data)) ELSE None]

\* s.parse::<i64>().ok() of the decimal text of a u64
ParseI64(u) == IF u[1] < LimbBase \div 2 THEN Some(Int(u)) ELSE None

\* The values process_send_packet_event binds.
BoundEventRow(attrs) ==
    LET packet_data_hex == IF attrs.packet_data = None THEN HexEncode(EmptyBytes)
                           ELSE attrs.packet_data[1]
        parsed == IF /\ attrs.packet_src_port = "transfer"
                     /\ packet_data_hex # HexEncode(EmptyBytes)
                  THEN from_slice(packet_data_hex[2]) ELSE Err
        user(f) == IF parsed.ok THEN Some(parsed.v[f]) ELSE None
    IN  [sequence |-> IF ParseI64(attrs.packet_sequence) = None
                      THEN Int(<<0, 0, 0, 0>>)
                      ELSE ParseI64(attrs.packet_sequence)[1],
         src_channel |-> attrs.packet_src_channel, src_port |-> attrs.packet_src_port,
         dst_channel |-> attrs.packet_dst_channel, dst_port |-> attrs.packet_dst_port,
         msg_type_url |-> "send_packet", signer |-> "", effected |-> FALSE,
         sender |-> user("sender"), receiver |-> user("receiver"),
         denom |-> user("denom"), amount |-> user("amount"),
         timeout_timestamp |-> ParseI64(attrs.packet_timeout_timestamp),
         data_hash |-> packet_data_hex]

FromPacket ==
    /\ dec.pc = "packet"
    /\ dec' = [pc |-> "info", packet |-> dec.packet, info |-> from_packet(dec.packet)]
    /\ UNCHANGED <<txs, packets, schema, config, col, metrics, delivered, sub, mon, api>>

BindPacket ==
    /\ dec.pc = "info"
    /\ TimeoutColumns \subseteq schema
    /\ dec' = [pc |-> "row", packet |-> dec.packet, info |-> dec.info,
               row |-> BoundRow(dec.packet, dec.info)]
    /\ UNCHANGED <<txs, packets, schema, config, col, metrics, delivered, sub, mon, api>>

\* process_send_packet_event for the send_packet event of the same packet.
BindSendPacketEvent(with_data) ==
    /\ dec.pc = "row"
    /\ TimeoutColumns \subseteq schema
    /\ dec' = [pc |-> "event", packet |-> dec.packet, info |-> dec.info,
               row |-> dec.row,
               event_row |-> BoundEventRow(SendPacketAttributes(dec.packet, with_data))]
    /\ UNCHANGED <<txs, packets, schema, config, col, metrics, delivered, sub, mon, api>>

(***************************************************************************)
(* The HTTP API. A handler answers with Json(body), status 200, or with a  *)
(* bare status code. Lists hold the ids of the rows they were built from.  *)
(*   api.endpoint, api.status, api.body: the last response                 *)
(***************************************************************************)
JsonBody(body) == [status |-> 200, body |-> Some(body)]
StatusCode(code) == [status |-> code, body |-> None]

\* FROM packets p JOIN txs t ON p.tx_id = t.id
Joined == {i \in 1..Len(packets) : packets[i].tx_id \in 1..Len(txs)}

\* (SELECT COUNT(*) FROM packets p2 WHERE same channels and sequence)
RelayAttempts(i) ==
    Cardinality({j \in 1..Len(packets) :
                    /\ packets[j].src_channel = packets[i].src_channel
                    /\ packets[j].dst_channel = packets[i].dst_channel
                    /\ packets[j].sequence = packets[i].sequence})

\* struct PacketInfo, built from row i.
PacketInfo(i) ==
    [chain_id |-> txs[packets[i].tx_id].chain,
     sequence |-> packets[i].sequence,
     src_channel |-> packets[i].src_channel,
     dst_channel |-> packets[i].dst_channel,
     sender |-> packets[i].sender,
     receiver |-> None, amount |-> None, denom |-> None,
     age_seconds |-> Age(packets[i], mon.now),
     relay_attempts |-> RelayAttempts(i),
     last_attempt_by |-> Some(packets[i].signer),
     ibc_version |-> "v1"]

Response(endpoint, result) ==
    [endpoint |-> endpoint, status |-> result.status, body |-> result.body]

\* GET /api/v1/packets/by-user?address=..  (role: both)
get_packets_by_user(address, db_ok) ==
    /\ api' = Response("by-user",
        IF address = "" THEN StatusCode(400)
        ELSE IF ~db_ok THEN StatusCode(500)
        ELSE LET rows == {i \in Joined : packets[i].sender = Some(address)}
             IN  JsonBody([packets |-> {PacketInfo(i) : i \in rows},
                           total |-> Cardinality(rows),
                           api_version |-> "1.0"]))
    /\ UNCHANGED <<txs, packets, schema, config, col, metrics, delivered, sub, mon, dec>>

\* GET /api/v1/packets/stuck  (min_age_seconds: default)
get_stuck_packets(db_ok) ==
    /\ api' = Response("stuck",
        IF ~db_ok THEN StatusCode(500)
        ELSE LET rows == StuckRows(mon.now)
             IN  JsonBody([packets |-> {PacketInfo(i) : i \in rows},
                           total |-> Cardinality(rows),
                           api_version |-> "1.0"]))
    /\ UNCHANGED <<txs, packets, schema, config, col, metrics, delivered, sub, mon, dec>>

\* GET /api/v1/packets/:chain/:channel/:sequence: fetch_one, LIMIT 1
get_packet_details(chain, channel, sequence) ==
    LET rows == {i \in Joined : /\ txs[packets[i].tx_id].chain = chain
                                /\ packets[i].src_channel = channel
                                /\ packets[i].sequence = sequence}
    IN  /\ api' = Response("details",
            IF rows = {} THEN StatusCode(404)
            ELSE JsonBody(PacketInfo(CHOOSE i \in rows : \A j \in rows : i <= j)))
        /\ UNCHANGED <<txs, packets, schema, config, col, metrics, delivered, sub, mon, dec>>

\* GET /api/v1/channels/congestion
get_channel_congestion(db_ok) ==
    /\ api' = Response("congestion",
        IF ~db_ok THEN StatusCode(500)
        ELSE JsonBody([channels |->
                          {<<packets[i].src_channel, packets[i].dst_channel>> :
                              i \in {j \in 1..Len(packets) :
                                        /\ ~packets[j].effected
                                        /\ Age(packets[j], mon.now) > STUCK_THRESHOLD}},
                       api_version |-> "1.0"]))
    /\ UNCHANGED <<txs, packets, schema, config, col, metrics, delivered, sub, mon, dec>>

\* The three queries that read timeout_timestamp or data_hash fail on a
\* table without these columns; the rows of this store have them NULL.
get_expiring_packets(db_ok) ==
    /\ api' = Response("expiring",
        IF ~db_ok \/ ~(TimeoutColumns \subseteq schema) THEN StatusCode(500)
        ELSE JsonBody([packets |-> {}, api_version |-> "1.0"]))
    /\ UNCHANGED <<txs, packets, schema, config, col, metrics, delivered, sub, mon, dec>>

get_expired_packets(db_ok) ==
    /\ api' = Response("expired",
        IF ~db_ok \/ ~(TimeoutColumns \subseteq schema) THEN StatusCode(500)
        ELSE JsonBody([packets |-> {}, api_version |-> "1.0"]))
    /\ UNCHANGED <<txs, packets, schema, config, col, metrics, delivered, sub, mon, dec>>

get_duplicate_packets(db_ok) ==
    /\ api' = Response("duplicates",
        IF ~db_ok \/ ~(TimeoutColumns \subseteq schema) THEN StatusCode(500)
        ELSE JsonBody([duplicates |-> {}, api_version |-> "1.0"]))
    /\ UNCHANGED <<txs, packets, schema, config, col, metrics, delivered, sub, mon, dec>>

(***************************************************************************)
(* Specifications.                                                         *)
(***************************************************************************)
ChainConfig(chain, version, username, password) ==
    [chain |-> chain, version |-> version,
     username |-> username, password |-> password]

\* The components a specification does not exercise stay as they start.
NoSub ==
    [w \in Workers |->
        [kind |-> "", reader |-> "none", rx |-> "dropped", chan |-> <<>>,
         last |-> "", send |-> "", orphans |-> 0, spawned |-> 0]]
NoMon ==
    [now |-> 0, sweeps |-> 0, ok |-> TRUE, failed |-> FALSE,
     detailed |-> {}, age |-> {}, stuck |-> {}]
NoDec == [pc |-> "none"]

NoApi == [endpoint |-> "", status |-> 0, body |-> None]

Idle == sub = NoSub /\ mon = NoMon /\ dec = NoDec /\ api = NoApi

\* The store of a deployment: the file db::setup leaves behind, which is
\* either new or one whose packets table already has the timeout columns.
InitStore ==
    /\ Idle
    /\ txs = <<>>
    /\ packets = <<>>
    /\ schema \in {CreatedColumns, CreatedColumns \cup TimeoutColumns}
    /\ metrics = [c \in Chains |-> Counters]
    /\ delivered = 0

\* A task main() did not spawn: it never takes a step.
NoConfig == ChainConfig("", "", FALSE, FALSE)
NotSpawned == [Fresh EXCEPT !.pc = "off"]

Step(w) ==
    \/ InsertTx(w)
    \/ SelectTxRow(w)
    \/ ProcessMsg(w)
    \/ FetchEffectedTx(w)
    \/ InsertPacket(w)
    \/ BlockResults(w)
    \/ ProcessEvent(w)

Items == {BlockItem(b) : b \in Blocks}
Delays == {0, NEWBLOCK_TIMEOUT}

\* Spec: one collector per configured chain, two chains sharing the store.
Init ==
    /\ InitStore
    /\ config = [w \in Workers |->
                   IF w = "w1" THEN ChainConfig("a-1", "0.34", FALSE, FALSE)
                   ELSE ChainConfig("b-1", "0.38", FALSE, FALSE)]
    /\ col = [w \in Workers |-> Fresh]

Next ==
    \E w \in Workers :
        \/ Subscribe(w)
        \/ NextItem(w, Items, Delays, MaxItems)
        \/ Step(w)

Spec == Init /\ [][Next]_vars

\* SpecSolo: a single chain and its collector, over a longer stream.
InitSolo ==
    /\ InitStore
    /\ config = [w \in Workers |->
                   IF w = "w1" THEN ChainConfig("a-1", "0.34", FALSE, FALSE)
                   ELSE NoConfig]
    /\ col = [w \in Workers |-> IF w = "w1" THEN Fresh ELSE NotSpawned]

NextSolo ==
    \E w \in Workers :
        \/ Subscribe(w)
        \/ NextItem(w, Items, Delays, MaxSoloItems)
        \/ Step(w)

SpecSolo == InitSolo /\ [][NextSolo]_vars

\* SpecSameChain: two collector tasks spawned for the same chain.
InitSameChain ==
    /\ InitStore
    /\ config = [w \in Workers |-> ChainConfig("a-1", "0.34", FALSE, FALSE)]
    /\ col = [w \in Workers |-> Fresh]

SpecSameChain == InitSameChain /\ [][Next]_vars

\* SpecLoop: the subscription loop of one collector over a stream of empty
\* blocks, errors, block-less events and the end of the stream, with the
\* time each item takes to arrive.
LoopItems ==
    {BlockItem(Block(100, <<>>)), OtherItem("err"), OtherItem("other"),
     OtherItem("closed")}
LoopDelays == {0, 30, 59, NEWBLOCK_TIMEOUT}

InitLoop ==
    /\ Idle
    /\ txs = <<>>
    /\ packets = <<>>
    /\ schema = CreatedColumns
    /\ metrics = [c \in Chains |-> Counters]
    /\ delivered = 0
    /\ config = [w \in Workers |->
                   IF w = "w1" THEN ChainConfig("a-1", "0.34", FALSE, FALSE)
                   ELSE NoConfig]
    /\ col = [w \in Workers |-> IF w = "w1" THEN Fresh ELSE NotSpawned]

NextLoop ==
    \E w \in Workers :
        \/ Subscribe(w)
        \/ NextItem(w, LoopItems, LoopDelays, MaxLoopItems)
        \/ BlockResults(w)

SpecLoop == InitLoop /\ [][NextLoop]_vars

\* An endpoint as the configuration file has it; url_ok says whether the url
\* parses (and, for a "ref:" url, whether chains.json has the reference).
RawEndpoint(url_ok, comet_version, username, password) ==
    [url_ok |-> url_ok, comet_version |-> comet_version,
     username |-> username, password |-> password]

\* Config::load for one endpoint: the url is the only thing it checks; the
\* version string is kept as configured.
load(chain, raw) ==
    IF ~raw.url_ok THEN None
    ELSE Some(ChainConfig(chain, raw.comet_version, raw.username, raw.password))

\* SpecRun: run() for one chain on the store db::setup creates in a new
\* file, over streams of empty blocks, a block whose packet insert fails, a
\* block whose transaction does not decode.
RunItems ==
    {BlockItem(Block(99, <<>>)), BlockItem(Block(100, <<"H1">>)),
     BlockItem(Block(107, <<"H7">>))}

RunEndpoints ==
    {RawEndpoint(ok, v, FALSE, FALSE) :
        ok \in BOOLEAN, v \in {"0.34", "0.38", "1.0"}}

InitRun ==
    /\ Idle
    /\ txs = <<>>
    /\ packets = <<>>
    /\ schema = CreatedColumns
    /\ metrics = [c \in Chains |-> Counters]
    /\ delivered = 0
    /\ \E raw \in RunEndpoints :
          config = [w \in Workers |->
                      IF w = "w1" /\ load("a-1", raw) # None
                      THEN load("a-1", raw)[1] ELSE NoConfig]
    /\ col = [w \in Workers |-> IF config[w] = NoConfig THEN NotSpawned ELSE Fresh]

NextRun ==
    \E w \in Workers :
        \/ Subscribe(w)
        \/ NextItem(w, RunItems, Delays, MaxRunItems)
        \/ InsertTx(w)
        \/ SelectTxRow(w)
        \/ ProcessMsg(w)
        \/ InsertPacket(w)
        \/ BlockResults(w)
        \/ Reconnect(w)
        \/ Sleep(w)

\* The runtime keeps polling the supervisor's task.
SpecRun ==
    /\ InitRun
    /\ [][NextRun]_vars
    /\ WF_vars(\E w \in Workers : Reconnect(w) \/ Sleep(w))

\* SpecClients: client creation and subscription of two collectors, for every
\* version tag and every combination of configured credentials.
VersionTags == {"0.34", "0.37", "0.38", "0.39", ""}

Endpoints ==
    {ChainConfig(c, v, u, p) :
        c \in {"a-1"}, v \in VersionTags, u \in BOOLEAN, p \in BOOLEAN}

InitClients ==
    /\ InitStore
    /\ config \in [Workers -> Endpoints]
    /\ col = [w \in Workers |-> Fresh]

NextClients == \E w \in Workers : Subscribe(w)

SpecClients == InitClients /\ [][NextClients]_vars

\* SpecChannel: the subscriptions of one chain served by the Modern or the
\* Auth client, over the restarts of its collector.
InitChannel ==
    /\ txs = <<>> /\ packets = <<>> /\ schema = CreatedColumns
    /\ metrics = [c \in Chains |-> Counters] /\ delivered = 0
    /\ sub = NoSub /\ mon = NoMon /\ dec = NoDec /\ api = NoApi
    /\ config \in {[w \in Workers |->
                       IF w = "w1" THEN ChainConfig("a-1", "0.38", u, u)
                       ELSE NoConfig] : u \in BOOLEAN}
    /\ col = [w \in Workers |-> IF w = "w1" THEN Fresh ELSE NotSpawned]

NextChannel ==
    \E w \in Workers :
        \/ \E connected \in BOOLEAN : SubscribeBlocks(w, connected)
        \/ \E f \in Frames : ReadFrame(w, f)
        \/ SendCompletes(w)
        \/ StreamNext(w)
        \/ IterationReturns(w)
        \/ OrphanEnds(w)

SpecChannel == InitChannel /\ [][NextChannel]_vars

\* SpecMonitor: the monitor over a store that holds packets of earlier runs.
\* Stored(r, created_at, sender) is the row r with the columns the monitor
\* reads besides those of r.
Stored(r, created_at, sender) ==
    [f \in DOMAIN r \cup {"created_at", "sender"} |->
        IF f = "created_at" THEN created_at
        ELSE IF f = "sender" THEN sender
        ELSE r[f]]

CreatedAts == {0, MONITOR_INTERVAL}

StoredPackets ==
    {Stored(PacketRow(t, P7, "send_packet", "", e, None, None), c, s) :
        t \in {1, 2}, e \in BOOLEAN, c \in CreatedAts,
        s \in {None, Some("alice")}}

InitMonitor ==
    /\ txs = <<TxRow("a-1", 100, "H1", ""), TxRow("b-1", 100, "H2", "")>>
    /\ \E n \in 0..MaxStuckRows : packets \in [1..n -> StoredPackets]
    /\ schema = CreatedColumns
    /\ metrics = [c \in Chains |-> Counters] /\ delivered = 0
    /\ config = [w \in Workers |-> NoConfig]
    /\ col = [w \in Workers |-> NotSpawned]
    /\ sub = NoSub /\ dec = NoDec /\ api = NoApi
    /\ mon = [NoMon EXCEPT !.now = STUCK_THRESHOLD]

NextMonitor ==
    \/ \E query_ok \in BOOLEAN : MonitorTick(query_ok)
    \/ AcknowledgeBetweenSweeps(P7)

SpecMonitor == InitMonitor /\ [][NextMonitor]_vars

\* The interval keeps ticking: the loop has no exit.
SpecMonitorLive ==
    SpecMonitor /\ WF_vars(\E query_ok \in BOOLEAN : MonitorTick(query_ok))

\* SpecDecode: from_packet and the binds over packets whose numeric fields
\* sit at the ends and the middle of the u64 range.
U64Samples ==
    {<<0, 0, 0, 0>>, <<0, 0, 0, 1>>, <<0, 0, 0, 123>>,
     <<LimbBase \div 2 - 1, LimbBase - 1, LimbBase - 1, LimbBase - 1>>,
     <<LimbBase \div 2, 0, 0, 0>>,
     <<LimbBase - 1, LimbBase - 1, LimbBase - 1, LimbBase - 1>>}

Height(revision_number, revision_height) ==
    [revision_number |-> revision_number, revision_height |-> revision_height]

Transfer ==
    [denom |-> Str("uosmo"), amount |-> Str("1000000"),
     sender |-> Str("osmo1sender"), receiver |-> Str("cosmos1receiver")]

Payloads ==
    {NotJson,
     Json(Transfer),
     Json([f \in DOMAIN Transfer \cup {"memo"} |->
             IF f = "memo" THEN Str("test") ELSE Transfer[f]]),
     Json([f \in DOMAIN Transfer \cup {"memo"} |->
             IF f = "memo" THEN Num("1") ELSE Transfer[f]]),
     Json([f \in DOMAIN Transfer \cup {"extra"} |->
             IF f = "extra" THEN Num("1") ELSE Transfer[f]]),
     Json([Transfer EXCEPT !.amount = Num("1000000")]),
     Json([f \in DOMAIN Transfer \ {"sender"} |-> Transfer[f]])}

DecodedPackets ==
    {[sequence |-> seq, source_port |-> sport, source_channel |-> "channel-0",
      destination_port |-> "transfer", destination_channel |-> "channel-141",
      data |-> data, timeout_timestamp |-> ts, timeout_height |-> h] :
        seq \in U64Samples, sport \in {"transfer", "icahost"},
        data \in Payloads, ts \in U64Samples,
        h \in {None} \cup {Some(Height(n, r)) :
                               n \in {<<0, 0, 0, 0>>, <<0, 0, 0, 1>>},
                               r \in U64Samples}}

InitDecode ==
    /\ txs = <<>> /\ packets = <<>>
    /\ schema = CreatedColumns \cup TimeoutColumns
    /\ metrics = [c \in Chains |-> Counters] /\ delivered = 0
    /\ config = [w \in Workers |-> NoConfig]
    /\ col = [w \in Workers |-> NotSpawned]
    /\ sub = NoSub /\ mon = NoMon /\ api = NoApi
    /\ \E p \in DecodedPackets : dec = [pc |-> "packet", packet |-> p]

NextDecode ==
    \/ FromPacket
    \/ BindPacket
    \/ \E with_data \in BOOLEAN : BindSendPacketEvent(with_data)

SpecDecode == InitDecode /\ [][NextDecode]_vars

\* SpecApi: requests to the HTTP API over a store that holds packets.
InitApi ==
    /\ txs = <<TxRow("a-1", 100, "H1", ""), TxRow("b-1", 100, "H2", "")>>
    /\ \E n \in 0..MaxStuckRows : packets \in [1..n -> StoredPackets]
    /\ schema \in {CreatedColumns, CreatedColumns \cup TimeoutColumns}
    /\ metrics = [c \in Chains |-> Counters] /\ delivered = 0
    /\ config = [w \in Workers |-> NoConfig]
    /\ col = [w \in Workers |-> NotSpawned]
    /\ sub = NoSub /\ dec = NoDec /\ api = NoApi
    /\ mon = [NoMon EXCEPT !.now = STUCK_THRESHOLD + MONITOR_INTERVAL]

NextApi ==
    \E db_ok \in BOOLEAN :
        \/ \E address \in {"", "alice", "bob"} : get_packets_by_user(address, db_ok)
        \/ get_stuck_packets(db_ok)
        \/ \E chain \in Chains, channel \in {"channel-0", "channel-9"} :
              get_packet_details(chain, channel, P7.sequence)
        \/ get_channel_congestion(db_ok)
        \/ get_expiring_packets(db_ok)
        \/ get_expired_packets(db_ok)
        \/ get_duplicate_packets(db_ok)

SpecApi == InitApi /\ [][NextApi]_vars

\* SpecEvents: one chain collected through any of the three clients.
InitEvents ==
    /\ InitStore
    /\ config \in {[w \in Workers |->
                       IF w = "w1" THEN ChainConfig("a-1", v, u, u)
                       ELSE NoConfig] :
                   v \in {"0.34", "0.38"}, u \in BOOLEAN}
    /\ col = [w \in Workers |-> IF w = "w1" THEN Fresh ELSE NotSpawned]

EventItems == Items \cup {BlockItem(Block(109, <<"H9">>))}

NextEvents ==
    \E w \in Workers :
        \/ Subscribe(w)
        \/ NextItem(w, EventItems, Delays, MaxSoloItems)
        \/ Step(w)

SpecEvents == InitEvents /\ [][NextEvents]_vars

\* SpecFaulty: one collector over blocks with unreadable parts.
FaultItems == {BlockItem(b) : b \in FaultBlocks}

NextFaulty ==
    \E w \in Workers :
        \/ Subscribe(w)
        \/ NextItem(w, FaultItems, Delays, MaxFaultItems)
        \/ Step(w)

SpecFaulty == InitSolo /\ [][NextFaulty]_vars

(***************************************************************************)
(* Properties.                                                             *)
(***************************************************************************)
Rows == 1..Len(packets)

\* The key of the data model: quadruple, sequence and message type.
Key(row) ==
    <<row.src_channel, row.src_port, row.dst_channel, row.dst_port,
      row.sequence, row.msg_type_url>>

\* The chain that reported a packet row: the chain of its own transaction.
RowChain(row) == txs[row.tx_id].chain

\* Rows written by the correlation step, as opposed to event-derived rows.
MessageDerived(row) == row.msg_type_url \notin {"send_packet", "timeout_packet"}

SameChainAndKey(i, j) ==
    /\ Key(packets[i]) = Key(packets[j])
    /\ RowChain(packets[i]) = RowChain(packets[j])

\* C1: for every chain and key at most one packet row is effected, whether
\* the rows were written by the correlation step or updated by events.
C1_AtMostOneEffected ==
    \A i, j \in Rows :
        (i < j /\ SameChainAndKey(i, j))
            => ~(packets[i].effected /\ packets[j].effected)

\* C2: with two collectors on one chain racing through probe and insert, the
\* store keeps at most one effected message-derived row per key.
C2_IndexRejectsSecondEffected ==
    \A i, j \in Rows :
        (/\ i < j
         /\ MessageDerived(packets[i]) /\ MessageDerived(packets[j])
         /\ Key(packets[i]) = Key(packets[j])
         /\ RowChain(packets[i]) = "a-1" /\ RowChain(packets[j]) = "a-1")
            => ~(packets[i].effected /\ packets[j].effected)

\* C3: the first message-derived row of a key on a chain is effected,
\* whatever other chains have stored for the key.
C3_FirstOnChainEffected ==
    \A j \in Rows :
        (/\ MessageDerived(packets[j])
         /\ \A i \in Rows : i < j => ~SameChainAndKey(i, j))
            => packets[j].effected

\* C4: effected_tx is null or references a transaction of the row's chain.
C4_EffectedTxSameChain ==
    \A i \in Rows :
        \/ packets[i].effected_tx = None
        \/ /\ packets[i].effected_tx[1] \in 1..Len(txs)
           /\ txs[packets[i].effected_tx[1]].chain = RowChain(packets[i])

\* C5: every uneffected row of the correlation step names, by transaction
\* and signer, an effected row of the same key stored before it.
C5_UneffectedPointsToWinner ==
    \A j \in Rows :
        (MessageDerived(packets[j]) /\ ~packets[j].effected)
            => \E i \in Rows :
                 /\ i < j
                 /\ Key(packets[i]) = Key(packets[j])
                 /\ packets[i].effected
                 /\ packets[j].effected_tx = Some(packets[i].tx_id)
                 /\ packets[j].effected_signer = Some(packets[i].signer)

\* C5 witness: a key with three stored observations, two of them uneffected.
C5_ThreeObservations ==
    \E i, j, k \in Rows :
        /\ i < j /\ j < k
        /\ MessageDerived(packets[i])
        /\ Key(packets[i]) = Key(packets[j]) /\ Key(packets[j]) = Key(packets[k])
        /\ ~packets[j].effected /\ ~packets[k].effected
        /\ packets[j].tx_id # packets[i].tx_id

\* C6: while a collector ingests again the block it has just ingested, no
\* step changes a transaction row or a packet row.
C6_ReingestChangesNothing ==
    [][\A w \in Workers :
          (/\ col[w].pc \notin {"off", "start", "wait", "returned"}
           /\ col[w].prev # None
           /\ col[w].block = col[w].prev)
              => (txs' = txs /\ packets' = packets)]_vars

\* The (chain, hash) a collector's insert_tx call is about.
HasTx(chain, hash) ==
    \E i \in 1..Len(txs) : txs[i].chain = chain /\ txs[i].hash = hash

C7_TxUnique ==
    \A i, j \in 1..Len(txs) :
        (txs[i].chain = txs[j].chain /\ txs[i].hash = txs[j].hash) => i = j

C7_ReturnsStoredRow ==
    \A w \in Workers :
        col[w].pc \in {"msg", "fetch_tx", "insert_packet", "event"}
            => /\ col[w].tx_row # None
               /\ col[w].tx_row[1].id \in 1..Len(txs)
               /\ txs[col[w].tx_row[1].id] = col[w].tx_row[1]
               /\ col[w].tx_row[1].chain = Chain(w)
               /\ col[w].tx_row[1].hash = CurTx(col[w]).hash

C7_StoredRowsKept ==
    /\ Len(txs') >= Len(txs)
    /\ \A i \in 1..Len(txs) : txs'[i] = txs[i]
    /\ \A w \in Workers :
          (/\ col[w].pc = "insert_tx"
           /\ col'[w].pc = "select_tx"
           /\ HasTx(Chain(w), CurTx(col[w]).hash))
              => txs' = txs

\* C7: under any interleaving of insert_tx calls (two collectors on one
\* chain included) no (chain, hash) is stored twice, an insert_tx for a
\* stored (chain, hash) leaves the table as it is, and the row insert_tx
\* returns is the stored row of that (chain, hash).
C7_InsertTxIdempotent ==
    [](C7_TxUnique /\ C7_ReturnsStoredRow) /\ [][C7_StoredRowsKept]_vars

\* C7 witness: an insert_tx has just run its INSERT OR IGNORE for a
\* (chain, hash) that was stored from a block of another height.
C7_IgnoredInsert ==
    \E w \in Workers : \E i \in 1..Len(txs) :
        /\ col[w].pc = "select_tx"
        /\ col[w].phase = "msgs"
        /\ txs[i].chain = Chain(w)
        /\ txs[i].hash = CurTx(col[w]).hash
        /\ txs[i].height # col[w].block[1].height

\* C8: the step in which the stream yields its end returns Disconnect.
C8_ClosedStreamDisconnects ==
    [][\A w \in Workers :
          (col[w].pc = "wait" /\ ~col[w].closed /\ col'[w].closed)
              => (col'[w].pc = "returned" /\ col'[w].outcome = "Disconnect")]_vars

\* C9: BlockElapsed is returned exactly when the iteration has processed
\* DISCONNECT_AFTER_BLOCKS blocks, and no block is processed after that.
C9_BlockElapsedAtHundredBlocks ==
    \A w \in Workers :
        /\ col[w].blocks <= DISCONNECT_AFTER_BLOCKS
        /\ col[w].outcome = "BlockElapsed" => col[w].blocks = DISCONNECT_AFTER_BLOCKS
        /\ col[w].blocks = DISCONNECT_AFTER_BLOCKS => col[w].pc # "wait"

\* C10: once NEWBLOCK_TIMEOUT seconds have passed without a block the
\* iteration has returned Timeout, counted once; no Timeout is returned
\* before that.
C10_TimeoutAfterSixtySeconds ==
    \A w \in Workers :
        /\ col[w].since >= NEWBLOCK_TIMEOUT
              => (col[w].pc = "returned" /\ col[w].outcome = "Timeout")
        /\ col[w].outcome = "Timeout"
              => /\ col[w].since >= NEWBLOCK_TIMEOUT
                 /\ metrics[Chain(w)].chainpulse_timeouts = 1

\* What a step of the supervisor of w does between two iterations.
C11_SupervisorStep(w) ==
    /\ col[w].pc = "returned"
          => /\ col'[w].pc = "sleep"
             /\ metrics'[Chain(w)].chainpulse_reconnects =
                    metrics[Chain(w)].chainpulse_reconnects + 1
    /\ col[w].pc = "sleep"
          => /\ col'[w] = [Fresh EXCEPT !.slept = RECONNECT_DELAY]
             /\ metrics' = metrics
    /\ col[w].pc \notin {"off", "returned"}
          => metrics'[Chain(w)].chainpulse_reconnects =
                 metrics[Chain(w)].chainpulse_reconnects

\* C11: run() never returns. Whatever the outcome of an iteration, the
\* supervisor's next step counts exactly one reconnect, then it sleeps
\* RECONNECT_DELAY seconds and starts an iteration with no client and no
\* subscription; and every returned iteration is followed by a new one.
C11_RunAlwaysRestarts ==
    /\ [][\A w \in Workers : col'[w] # col[w] => C11_SupervisorStep(w)]_vars
    /\ \A w \in Workers :
          (col[w].pc = "returned")
              ~> (col[w].pc = "start" /\ col[w].slept = RECONNECT_DELAY)

\* C11 witness: the third restart, after a Timeout, an error and a
\* BlockElapsed, has subscribed again.
C11_RestartedThreeTimes ==
    /\ col["w1"].pc = "start"
    /\ col["w1"].slept = RECONNECT_DELAY
    /\ metrics["a-1"].chainpulse_reconnects = 3
    /\ metrics["a-1"].chainpulse_timeouts = 1
    /\ metrics["a-1"].chainpulse_errors = 1

\* C12: chainpulse_errors changes only in the supervisor's step after an
\* iteration has returned, by one if the iteration returned an error and
\* not at all if it returned Timeout or BlockElapsed.
C12_ErrorsCountedOnce ==
    [][\A w \in Workers :
          LET e == metrics[Chain(w)].chainpulse_errors
              e1 == metrics'[Chain(w)].chainpulse_errors
          IN  col'[w] # col[w] =>
                IF col[w].pc = "returned" /\ col[w].outcome = "Err"
                THEN e1 = e + 1
                ELSE e1 = e]_vars

\* C12 witness: one error was counted, for an iteration whose packet
\* insert failed, and none for the two
\* iterations that ended with Timeout and BlockElapsed.
C12_OneErrorInThree ==
    /\ col["w1"].pc = "sleep"
    /\ metrics["a-1"].chainpulse_errors = 1
    /\ metrics["a-1"].chainpulse_timeouts = 1
    /\ metrics["a-1"].chainpulse_reconnects = 3
    /\ metrics["a-1"].ibc_effected_packets = 1

\* The message a collector in the message loop is at.
CurMsg(w) == CurTx(col[w]).messages[col[w].mi]

\* A decoded message that carries a packet: what the correlation step is for.
IsPacketMsg(any) ==
    /\ any.decodes
    /\ any.type_url \in {RecvUrl, AckUrl, TimeoutUrl}
    /\ any.packet # None

\* C13: a correlation step counts the packet once, counts it as effected
\* iff no stored row has its key and else as uneffected and as a frontrun,
\* once each, and ends with exactly one new packet row whose effected flag says
\* which of the two it was.
C13_CorrelationStep ==
    [][\A w \in Workers :
          LET m == metrics[Chain(w)]
              m1 == metrics'[Chain(w)]
          IN  col'[w] # col[w] =>
                /\ (col[w].pc = "msg" /\ IsPacketMsg(CurMsg(w)))
                      => LET found == \E i \in Rows :
                                 ProbeMatches(packets[i], CurMsg(w).packet[1],
                                              CurMsg(w).type_url)
                         IN  /\ m1.chainpulse_packets = m.chainpulse_packets + 1
                             /\ m1.ibc_effected_packets =
                                  m.ibc_effected_packets + (IF found THEN 0 ELSE 1)
                             /\ col'[w].existing = None <=> ~found
                /\ col[w].pc = "fetch_tx"
                      => /\ m1.ibc_uneffected_packets = m.ibc_uneffected_packets + 1
                         /\ m1.ibc_frontrun_counter = m.ibc_frontrun_counter + 1
                         /\ m1.ibc_effected_packets = m.ibc_effected_packets
                /\ col[w].pc = "insert_packet"
                      => /\ Len(packets') = Len(packets) + 1
                         /\ packets'[Len(packets')].effected = (col[w].existing = None)
                         /\ packets'[Len(packets')].tx_id = col[w].tx_row[1].id]_vars

\* C14: every series of ibc_frontrun_counter that was incremented has a
\* signer label that differs from its frontrunned_by label.
C14_FrontrunOnlyByOtherSigner ==
    \A c \in Chains : \A l \in metrics[c].frontrun_labels : l[1] # l[2]

\* C15: the step that processes a MsgTransfer message adds one to
\* chainpulse_packets and leaves the packets table as it is.
C15_TransferCountedOnce ==
    [][\A w \in Workers :
          (/\ col'[w] # col[w]
           /\ col[w].pc = "msg"
           /\ CurMsg(w).decodes
           /\ CurMsg(w).type_url = TransferUrl)
              => /\ packets' = packets
                 /\ metrics'[Chain(w)].chainpulse_packets =
                        metrics[Chain(w)].chainpulse_packets + 1]_vars

\* A message whose bytes do not parse as the type its url names.
FailsToDecode(any) == MsgVariant(any.type_url) # "Other" /\ ~any.decodes

\* C16: the step that meets a message that fails to decode changes no row
\* and no metric and does not end the iteration; the collector goes on with
\* the next message of the transaction, or after the last message with the
\* next transaction of the block or the block's results.
C16_DecodeFailureSkipped ==
    [][\A w \in Workers :
          (/\ col'[w] # col[w]
           /\ col[w].pc = "msg"
           /\ FailsToDecode(CurMsg(w)))
              => /\ txs' = txs /\ packets' = packets /\ metrics' = metrics
                 /\ col'[w].pc # "returned"
                 /\ col'[w].block = col[w].block
                 /\ IF col[w].mi < Len(CurTx(col[w]).messages)
                    THEN /\ col'[w].pc = "msg"
                         /\ col'[w].ti = col[w].ti
                         /\ col'[w].mi = col[w].mi + 1
                    ELSE IF col[w].ti < Len(col[w].block[1].data)
                    THEN col'[w].pc = "insert_tx" /\ col'[w].ti = col[w].ti + 1
                    ELSE col'[w].pc = "results"]_vars

\* C16 witness: the block whose first transaction has an undecodable second
\* message is done: the messages before and after it and the message of the
\* next transaction have their rows.
C16_NeighboursStored ==
    /\ col["w1"].pc = "wait"
    /\ col["w1"].prev = Some(Block(108, <<"H8", "H2">>))
    /\ \E i, j, k \in Rows :
          /\ i < j /\ j < k
          /\ txs[packets[i].tx_id].hash = "H8" /\ packets[i].msg_type_url = RecvUrl
          /\ txs[packets[j].tx_id].hash = "H8" /\ packets[j].msg_type_url = TimeoutUrl
          /\ txs[packets[k].tx_id].hash = "H2"

\* C17: the step that finds a transaction without a body ends the iteration
\* with an error and changes no row; an iteration that has returned takes no
\* further step, so the later transactions of the block are not processed;
\* and no step removes or rewrites a transaction row or removes a packet row.
C17_MissingBodyEndsIteration ==
    [][\A w \in Workers :
          /\ (/\ col'[w] # col[w]
              /\ col[w].pc = "select_tx"
              /\ col[w].phase = "msgs"
              /\ ~CurTx(col[w]).body)
                 => /\ col'[w].pc = "returned"
                    /\ col'[w].outcome = "Err"
                    /\ col'[w].ti = col[w].ti
                    /\ txs' = txs /\ packets' = packets
          /\ col[w].pc = "returned" => col'[w] = col[w]
          /\ \A i \in 1..Len(txs) : Len(txs') >= i /\ txs'[i] = txs[i]
          /\ Len(packets') >= Len(packets)]_vars

\* C17 witness: the iteration ended at the body-less second transaction of
\* block 106; the first transaction's rows are stored, the third has none.
C17_StoppedAtSecondTx ==
    /\ col["w1"].pc = "returned"
    /\ col["w1"].outcome = "Err"
    /\ col["w1"].block = Some(Block(106, <<"H1", "H6", "H2">>))
    /\ col["w1"].ti = 2
    /\ HasTx("a-1", "H1") /\ HasTx("a-1", "H6") /\ ~HasTx("a-1", "H2")
    /\ \E i \in Rows : txs[packets[i].tx_id].hash = "H1"

\* Rows that came from a send_packet event, before or after a timeout.
EventDerived(row) == row.msg_type_url \in {"send_packet", "timeout_packet"}

\* The event a collector in the event loop is at.
CurEvent(w) == CurTx(col[w]).events[col[w].ei]

\* C18: no step changes an event-derived row whose effected flag is set.
C18_UpdatedAtMostOnce ==
    [][\A i \in Rows :
          (EventDerived(packets[i]) /\ packets[i].effected)
              => packets'[i] = packets[i]]_vars

\* C19: a send_packet event appends a row with msg_type_url 'send_packet',
\* effected false and empty signer; an acknowledge_packet event sets effected
\* and effected_tx (the transaction with the event) of the send_packet row of
\* its identity and keeps msg_type_url; a timeout_packet event does the same
\* and sets msg_type_url to 'timeout_packet'.
C19_EventLifecycle ==
    [][\A w \in Workers :
          (col'[w] # col[w] /\ col[w].pc = "event") =>
             LET ev == CurEvent(w)
                 tx_id == col[w].tx_row[1].id
                 hit(i) == /\ packets[i].msg_type_url = "send_packet"
                           /\ packets[i].sequence = ev.packet_sequence
                           /\ packets[i].src_channel = ev.packet_src_channel
                           /\ packets[i].src_port = ev.packet_src_port
                           /\ packets[i].dst_channel = ev.packet_dst_channel
                           /\ packets[i].dst_port = ev.packet_dst_port
             IN  /\ ev.type_str = "send_packet"
                       => /\ Len(packets') = Len(packets) + 1
                          /\ LET r == packets'[Len(packets')]
                             IN  /\ r.msg_type_url = "send_packet"
                                 /\ ~r.effected
                                 /\ r.signer = ""
                                 /\ r.tx_id = tx_id
                                 /\ r.sequence = ev.packet_sequence
                 /\ ev.type_str \in {"acknowledge_packet", "timeout_packet"}
                       => \A i \in Rows : hit(i) =>
                             /\ packets'[i].effected
                             /\ packets'[i].effected_tx = Some(tx_id)
                             /\ packets'[i].msg_type_url =
                                  IF ev.type_str = "timeout_packet"
                                  THEN "timeout_packet" ELSE "send_packet"]_vars

\* C20: an acknowledge_packet or timeout_packet event of chain c changes
\* only send_packet rows of chain c with the event's ports, channels and
\* sequence.
C20_UpdateScopedToChainAndPorts ==
    [][\A w \in Workers :
          (/\ col'[w] # col[w]
           /\ col[w].pc = "event"
           /\ CurEvent(w).type_str \in {"acknowledge_packet", "timeout_packet"})
              => /\ Len(packets') = Len(packets)
                 /\ \A i \in Rows :
                       packets'[i] # packets[i] =>
                          /\ RowChain(packets[i]) = Chain(w)
                          /\ packets[i].msg_type_url = "send_packet"
                          /\ packets[i].sequence = CurEvent(w).packet_sequence
                          /\ packets[i].src_port = CurEvent(w).packet_src_port
                          /\ packets[i].src_channel = CurEvent(w).packet_src_channel
                          /\ packets[i].dst_port = CurEvent(w).packet_dst_port
                          /\ packets[i].dst_channel = CurEvent(w).packet_dst_channel]_vars

\* The client the claim's table gives for a version tag and credentials.
C21_Selected(version, username, password) ==
    IF username /\ password THEN "Auth"
    ELSE CASE version = "0.34" -> "Classic"
           [] version = "0.37" -> "Classic"
           [] version = "0.38" -> "Modern"
           [] OTHER -> "Unsupported"

\* C21: a collector that holds a subscription holds the client the table
\* gives for its configured version and credentials, credentials counting
\* only when username and password are both configured; a configuration
\* for which the table has no client never gets past client creation, and
\* its iteration returns an error.
C21_ClientSelection ==
    \A w \in Workers :
        LET want == C21_Selected(config[w].version, config[w].username,
                                 config[w].password)
        IN  /\ col[w].pc = "wait" => col[w].client = want
            /\ want = "Unsupported" =>
                  /\ col[w].pc \in {"start", "returned"}
                  /\ col[w].pc = "returned" => col[w].outcome = "Err"

\* C21 witness: with the same unknown version tag, the collector with both
\* credentials subscribed through the AuthClient, while the one with a
\* user name only ended with an error.
C21_AuthAndUnsupported ==
    /\ config["w1"].version = "0.39" /\ config["w2"].version = "0.39"
    /\ config["w1"].username /\ config["w1"].password
    /\ config["w2"].username /\ ~config["w2"].password
    /\ col["w1"].pc = "wait" /\ col["w1"].client = "Auth"
    /\ col["w2"].pc = "returned" /\ col["w2"].outcome = "Err"

\* C22: a chain whose configured version has no client is rejected when the
\* configuration is loaded: no collector runs for it, so none fails at
\* client creation and none is restarted by the supervisor.
C22_UnsupportedVersionFatalAtStartup ==
    \A w \in Workers :
        (/\ col[w].pc # "off"
         /\ C21_Selected(config[w].version, config[w].username,
                         config[w].password) = "Unsupported")
            => metrics[Chain(w)].chainpulse_reconnects = 0

\* The subscription task of w took the step from sub to sub'.
TaskStep(w) == sub'[w] # sub[w] /\ sub[w].reader # "none"

\* C23: the channel never holds more than 100 events, and a block that
\* arrives while the channel is full makes the reader drop its sender and
\* end; the reader does not wait for room.
C23_OverflowDropsSender ==
    [][\A w \in Workers :
         /\ Len(sub'[w].chan) <= CHANNEL_CAPACITY
         /\ (/\ TaskStep(w)
             /\ sub[w].reader = "running"
             /\ sub'[w].last = "block"
             /\ sub[w].rx = "live"
             /\ Len(sub[w].chan) = CHANNEL_CAPACITY)
                => sub'[w].reader = "done"]_vars

\* C24: once the iteration that subscribed has returned, its task ends: a
\* reader whose send fails because the receiver is gone stops reading and
\* releases its socket.
C24_TasksEndWithIteration ==
    [][\A w \in Workers :
         (/\ TaskStep(w)
          /\ sub[w].rx = "dropped"
          /\ sub'[w].send = "failed")
            => sub'[w].reader = "done"]_vars

\* Err(e) as an item of the stream.
ErrItem == [ok |-> FALSE, data |-> "error"]

\* C25: a transport error, a malformed frame or a JSON-RPC error response
\* read by the Modern reader puts exactly one error item on the stream and
\* ends the reader, so that no block event follows.
C25_FailureYieldsOneErrorItem ==
    [][\A w \in Workers :
         (/\ TaskStep(w)
          /\ sub[w].kind = "Modern"
          /\ sub[w].reader = "running"
          /\ sub'[w].last \in {"transport_error", "malformed", "rpc_error"})
            => /\ sub'[w].reader = "done"
               /\ sub'[w].chan = Append(sub[w].chan, ErrItem)]_vars

\* C26: when the stream delivers an error item, the iteration ends with an
\* error outcome; the collector does not go on to read further items.
C26_StreamErrorEndsIteration ==
    [][\A w \in Workers :
         (/\ col[w].pc = "wait"
          /\ col'[w].count = col[w].count + 1
          /\ col'[w].item = "err")
            => /\ col'[w].pc = "returned"
               /\ col'[w].outcome = "Err"]_vars

\* The value of the series of gauge family g with the given labels; None
\* when the series was never set.
Gauge(g, labels) ==
    IF \E e \in g : e[1] = labels
    THEN Some((CHOOSE e \in g : e[1] = labels)[2])
    ELSE None

\* C27: a sweep over a group that has one stuck packet with a sender and one
\* without sets ibc_stuck_packets_detailed to 1 for has_user_data = "true"
\* and to 1 for has_user_data = "false", and the age gauge to at least the
\* age of the two packets.
C27_SweepSplitsByUserData ==
    \A i, j \in StuckRows(mon.now) :
        (/\ mon.sweeps > 0 /\ mon.ok
         /\ GroupOf(i) = GroupOf(j)
         /\ Members(GroupOf(i), mon.now) = {i, j}
         /\ packets[i].sender # None
         /\ packets[j].sender = None)
            => LET g == GroupOf(i)
               IN  /\ Gauge(mon.detailed, <<g[1], g[2], g[3], g[2], "true">>) = Some(1)
                   /\ Gauge(mon.detailed, <<g[1], g[2], g[3], g[2], "false">>) = Some(1)
                   /\ Gauge(mon.age, g) # None
                   /\ Gauge(mon.age, g)[1] >= Age(packets[i], mon.now)
                   /\ Gauge(mon.age, g)[1] >= Age(packets[j], mon.now)

\* C28: after a sweep, the age gauge of every reported group is the age of
\* the oldest stuck packet of the group.
C28_AgeGaugeIsOldest ==
    \A i \in StuckRows(mon.now) :
        (mon.sweeps > 0 /\ mon.ok)
            => /\ Gauge(mon.age, GroupOf(i)) # None
               /\ \A j \in Members(GroupOf(i), mon.now) :
                      Gauge(mon.age, GroupOf(i))[1] >= Age(packets[j], mon.now)

\* C29: the stored numeric fields equal the decoded ones over the whole
\* unsigned 64-bit range: timeout_timestamp is NULL iff the packet's is 0 and
\* otherwise equals it, sequence equals the packet's sequence, and the
\* timeout height equals the packet's or is NULL when the packet has none.
C29_StoredEqualsDecoded ==
    dec.pc \in {"row", "event"} =>
        LET p == dec.packet
            row == dec.row
        IN  /\ row.sequence = Int(p.sequence)
            /\ row.timeout_timestamp =
                  (IF p.timeout_timestamp = <<0, 0, 0, 0>> THEN None
                   ELSE Some(Int(p.timeout_timestamp)))
            /\ row.timeout_height_revision_number =
                  (IF p.timeout_height = None THEN None
                   ELSE Some(Int(p.timeout_height[1].revision_number)))
            /\ row.timeout_height_revision_height =
                  (IF p.timeout_height = None THEN None
                   ELSE Some(Int(p.timeout_height[1].revision_height)))

\* The payload is a fungible-token record: a JSON object with string members
\* denom, amount, sender and receiver, and a memo that is a string if present.
C30_IsTransferRecord(data) ==
    /\ data.json
    /\ \A f \in {"denom", "amount", "sender", "receiver"} :
          f \in DOMAIN data.object /\ data.object[f].t = "string"
    /\ "memo" \in DOMAIN data.object => data.object.memo.t = "string"

\* C30: from_packet extracts user data all-or-nothing: the five user fields
\* are all present iff the source port is "transfer" and the payload is a
\* fungible-token record (a missing memo giving ""), otherwise all absent;
\* identity fields and sequence are copied and ibc_version is "v1".
C30_UserDataAllOrNothing ==
    dec.pc \in {"info", "row", "event"} =>
        LET p == dec.packet
            info == dec.info
            o == p.data.object
        IN  /\ IF p.source_port = "transfer" /\ C30_IsTransferRecord(p.data)
               THEN /\ info.sender = Some(o.sender.v)
                    /\ info.receiver = Some(o.receiver.v)
                    /\ info.denom = Some(o.denom.v)
                    /\ info.amount = Some(o.amount.v)
                    /\ info.transfer_memo =
                          Some(IF "memo" \in DOMAIN o THEN o.memo.v ELSE "")
               ELSE /\ info.sender = None /\ info.receiver = None
                    /\ info.denom = None /\ info.amount = None
                    /\ info.transfer_memo = None
            /\ info.sequence = p.sequence
            /\ info.source_channel = p.source_channel
            /\ info.destination_channel = p.destination_channel
            /\ info.source_port = p.source_port
            /\ info.destination_port = p.destination_port
            /\ info.ibc_version = "v1"

\* A transfer packet whose payload has no memo was decoded.
C30_MemoDefaulted ==
    /\ dec.pc = "info"
    /\ dec.packet.source_port = "transfer"
    /\ dec.packet.data = Json(Transfer)
    /\ dec.info.transfer_memo = Some("")

\* C31: the stored data_hash is the hex SHA-256 of the packet's payload and
\* depends on nothing else: the row written from the decoded message and the
\* row written from the send_packet event of the same packet have the same
\* data_hash.
C31_DataHashOfPayload ==
    dec.pc = "event" =>
        /\ dec.row.data_hash = Sha256Hex(dec.packet.data)
        /\ dec.event_row.data_hash = dec.row.data_hash

\* C32: every successful JSON response of the HTTP API has the field
\* api_version with value "1.0".
C32_ApiVersionInEveryResponse ==
    api.status = 200 =>
        /\ "api_version" \in DOMAIN api.body[1]
        /\ api.body[1].api_version = "1.0"

\* C33: block results are requested iff the client advertises event support
\* (the Classic and the Modern client do, the Auth client does not), and only
\* after the messages of all transactions of the block were processed; a
\* failed request is ignored: the loop goes on with the next block and the
\* store is left as it is. A collector using the Auth client never writes an
\* event-derived row.
C33_BlockResultsStep ==
    [][\A w \in Workers :
         /\ col'[w].results # col[w].results /\ col'[w].results # ""
               => /\ col[w].pc = "results" /\ col[w].phase = "msgs"
                  /\ col[w].ti >= Len(col[w].block[1].data)
                  /\ (col'[w].results = "none") <=> (col[w].client = "Auth")
         /\ (col[w].pc = "results" /\ col'[w].results \in {"none", "failed"})
               => /\ col'[w].pc \in {"wait", "returned"}
                  /\ col'[w].outcome # "Err"
                  /\ txs' = txs /\ packets' = packets
         /\ col[w].client = "Auth"
               => \A i \in 1..Len(packets') :
                      packets'[i].msg_type_url \in {"send_packet", "timeout_packet"}
                          => i \in 1..Len(packets)]_vars

\* A Classic or Modern collector had a block-results request fail after it
\* stored the block's rows, and an Auth collector finished a block that
\* carries a send_packet event.
C33_FailedRequestIgnored ==
    \E w \in Workers :
        /\ col[w].results = "failed"
        /\ col[w].pc = "wait"
        /\ Len(txs) > 0

C33_AuthSkipsEvents ==
    \E w \in Workers :
        /\ col[w].client = "Auth"
        /\ col[w].results = "none"
        /\ col[w].prev # None
        /\ col[w].prev[1].data = <<"H3">>

\* C34: transactions are inserted in block order and messages correlated in
\* message order: once a collector is through a block whose two transactions
\* carry a message with the same key, and no row of that key was stored
\* before the block, the row of the earlier transaction is stored with
\* effected = true and the row of the later one with effected = false,
\* pointing to the earlier one's transaction.
C34_EarlierInBlockWins ==
    \A w \in Workers :
        (/\ col[w].block = Some(Block(105, <<"H1", "H2">>))
         /\ col[w].blocks = 1
         /\ col[w].pc \in {"wait", "returned"})
            => \E i, j \in 1..Len(packets) :
                  /\ i < j
                  /\ packets[i].tx_id < packets[j].tx_id
                  /\ txs[packets[i].tx_id].hash = "H1"
                  /\ txs[packets[j].tx_id].hash = "H2"
                  /\ packets[i].effected
                  /\ ~packets[j].effected
                  /\ packets[j].effected_tx = Some(packets[i].tx_id)

\* The collector w is at an event of the given types and takes its step.
C35_AtEvent(w, types) ==
    /\ col[w].pc = "event"
    /\ col'[w] # col[w]
    /\ CurEvent(w).type_str \in types

\* C35: the store only grows: no step changes or removes a transaction row or
\* a message-derived packet row; only the acknowledge_packet and
\* timeout_packet handlers change a packet row at all, and a recv_packet
\* event leaves the whole store as it is.
C35_AppendOnly ==
    [][/\ Len(txs') >= Len(txs)
       /\ \A i \in 1..Len(txs) : txs'[i] = txs[i]
       /\ Len(packets') >= Len(packets)
       /\ \A i \in 1..Len(packets) :
             /\ MessageDerived(packets[i]) => packets'[i] = packets[i]
             /\ packets'[i] # packets[i]
                   => \E w \in Workers :
                         C35_AtEvent(w, {"acknowledge_packet", "timeout_packet"})
       /\ \A w \in Workers :
             C35_AtEvent(w, {"recv_packet"}) => txs' = txs /\ packets' = packets]_vars

\* An acknowledge_packet event has updated the send_packet row of a packet
\* whose message-derived row is stored as well.
C35_EventRowUpdatedBesideMessageRow ==
    \E i, j \in 1..Len(packets) :
        /\ MessageDerived(packets[i])
        /\ packets[j].msg_type_url = "send_packet"
        /\ packets[j].effected
        /\ packets[i].sequence = packets[j].sequence
        /\ packets[i].src_channel = packets[j].src_channel
        /\ packets[i].dst_channel = packets[j].dst_channel

\* C36: the monitor sweeps on every tick, MONITOR_INTERVAL apart, and never
\* stops: each sweep is followed by the next one, whether or not its query
\* succeeded, and a sweep whose query fails leaves every gauge as it was.
C36_MonitorKeepsSweeping ==
    /\ [][mon' # mon =>
            /\ mon'.sweeps = mon.sweeps + 1
            /\ mon'.now = (IF mon.sweeps = 0 THEN mon.now
                           ELSE mon.now + MONITOR_INTERVAL)
            /\ ~mon'.ok => /\ mon'.detailed = mon.detailed
                           /\ mon'.age = mon.age
                           /\ mon'.stuck = mon.stuck]_vars
    /\ \A n \in 0..(MaxSweeps - 1) :
          (mon.sweeps = n) ~> (mon.sweeps = n + 1)

\* A sweep succeeded and left gauges set after an earlier one had failed.
C36_SweepAfterFailure ==
    /\ mon.ok
    /\ mon.failed
    /\ mon.detailed # {}

\* The message-derived rows of chain ch with the given effected flag.
StoredObservations(ch, effected) ==
    {i \in 1..Len(packets) :
        /\ MessageDerived(packets[i])
        /\ packets[i].effected = effected
        /\ packets[i].tx_id \in 1..Len(txs)
        /\ txs[packets[i].tx_id].chain = ch}

\* C37: whenever no correlation step is between its metric and its insert,
\* each chain's ibc_effected_packets count equals its stored message-derived
\* rows with effected = true and its ibc_uneffected_packets count those with
\* effected = false: nothing is counted for a row that was not persisted.
C37_MetricsMatchStore ==
    (\A w \in Workers : col[w].pc # "insert_packet") =>
        \A ch \in Chains :
            /\ metrics[ch].ibc_effected_packets =
                    Cardinality(StoredObservations(ch, TRUE))
            /\ metrics[ch].ibc_uneffected_packets =
                    Cardinality(StoredObservations(ch, FALSE))

\* C38: on a store that db::setup created, the packets table has every
\* column the packet inserts name, and a correlation step that reaches its
\* INSERT appends its row and goes on instead of returning a store error.
C38_FreshStoreTakesInserts ==
    [][\A w \in Workers :
          (/\ schema = CreatedColumns
           /\ col[w].pc = "insert_packet"
           /\ col'[w] # col[w]) =>
              /\ ProcessMsgColumns \cup SendPacketColumns \subseteq schema
              /\ Len(packets') = Len(packets) + 1
              /\ col'[w].outcome # "Err"]_vars

\* The (chain, dst_channel, src_channel) group of a series of
\* ibc_stuck_packets_detailed, and whether the series carries the
\* has_user_data label the group has now.
DetailedGroup(labels) == <<labels[1], labels[2], labels[3]>>
CurrentSeries(labels, now) ==
    LET rows == Members(DetailedGroup(labels), now)
    IN  \/ rows = {}
        \/ labels[5] = (IF \E i \in rows : packets[i].sender # None
                        THEN "true" ELSE "false")

\* C39: after every sweep whose query succeeded, each series of
\* ibc_stuck_packets and each current series of ibc_stuck_packets_detailed,
\* that is each group this sweep or an earlier one reported, shows the number
\* of rows of its group that are uneffected and older than the threshold now;
\* a group with no such row left shows 0.
C39_GaugesFollowStore ==
    [][(mon' # mon /\ mon'.ok) =>
          /\ \A e \in mon'.stuck :
                e[2] = Cardinality(Members(e[1], mon'.now))
          /\ \A e \in mon'.detailed :
                CurrentSeries(e[1], mon'.now) =>
                    e[2] = Cardinality(Members(DetailedGroup(e[1]), mon'.now))]_vars

====
